---- MODULE Spec2Model ----
(***************************************************************************)
(* A model of m-lab/pusher: the backoff retrier (backoff.Retry), the       *)
(* tarfile builder (tarfile.Add / tarfile.UploadAndDelete) and the tar     *)
(* cache event loop (TarCache.ListenForever, add, uploadAndDelete,         *)
(* uploadAll, makeTimer).                                                  *)
(*                                                                         *)
(* Several state machines share the module, each with its own variables    *)
(* and its own specification; the machines a specification does not run    *)
(* stay idle.  SpecRetry runs backoff.Retry on inputs drawn from bounded    *)
(* sets; Spec (and LiveSpec, LiveTimerSpec, SpecFaults) runs one tar cache  *)
(* with its producers, timers, contexts and upload goroutines; SpecFinder   *)
(* runs the sweeps of finder.FindForever over a small tree; SpecMain (and   *)
(* LiveSpecMain) runs main with signalHandler and one loop per datatype;    *)
(* SpecUpload runs one call of uploader.Upload.                             *)
(***************************************************************************)
EXTENDS Integers, Sequences, FiniteSets, TLC

VARIABLES
    \* ---- backoff.Retry (src/backoff/retry.go) ----
    rPc,            \* "idle" | "call" | "sleep" | "returned"
    initialBackoff, \* parameter initialBackoff
    maxBackoff,     \* parameter maxBackoff
    waitTime,       \* local waitTime
    rCalls,         \* number of calls of f made so far
    rFailures,      \* number of those calls that returned an error
    rSleep,         \* argument of the time.Sleep in progress (0 when none)
    rDrawn,         \* TRUE iff the sleep in progress was drawn at the ceiling
    rLastErr,       \* what the last call of f returned: "none" | "nil" | "error"
    pusherRetries,  \* counter pusher_retries_total of the label
    pusherMaxRetries, \* counter pusher_max_retries_total of the label
    retryTimes,     \* histogram pusher_retry_runtime of the label: observations by value of "success"
    \* ---- tar cache (src/unnamed/part_008, src/unnamed/part_002) ----
    disk,           \* the system paths that exist on disk
    fileChannel,    \* buffered contents of TarCache.fileChannel
    chanClosed,     \* the producer closed fileChannel
    sendsLeft,      \* number of filenames the producers will still send
    timeoutSenders, \* subdir -> number of timer goroutines blocked on timeoutChannel
    currentTarfile, \* TarCache.currentTarfile: subdir -> tarfile
    pc,             \* position of ListenForever
    flushSubdir,    \* the subdir under uploadAndDelete(subdir), or NoSubdir
    termCanceled,   \* termCtx.Done() is closed
    killCanceled,   \* killCtx.Done() is closed
    uploadFails,    \* number of Upload calls that returned an error
    duplicates,     \* pusher_tarfiles_duplicates_total, by condition
    returnedBy,     \* why ListenForever returned: "" | "closed" | "kill"
    metrics,        \* the error counters of tarcache.go and tarfile.go
    committed,      \* history: the files that are members of an uploaded archive
    removeFailsLeft, \* how many more times os.Remove will refuse to remove a file
    \* ---- finder (src/finder/findfiles.go) ----
    fsys,           \* the tree under the finder's directory: path -> [kind, mtime]
    clock,          \* time.Now(), in hours
    fPc,            \* position of FindForever: "idle" | "sleep" | "walk" | "emit" | "returned"
    eligibleTime,   \* findFiles: eligibleTime
    toVisit,        \* the paths filepath.Walk has still to visit, in its order
    eligibleFiles,  \* findFiles: the keys of eligibleFiles
    walkErr,        \* filepath.Walk returned an error
    fileList,       \* what the loop of FindForever has still to send
    emitted,        \* what this sweep has sent on notificationChannel
    lastSweep,      \* history: the sweep before this one
    sweeps,         \* number of sweeps started
    \* ---- main and signalHandler (src/pusher.go) ----
    mPc,            \* position of main: "idle" | "start" | "spawn" | "wait" | "returned"
    dryRun,         \* flag dry_run
    ctxDone,        \* ctx (the root context) is canceled
    killDone,       \* killContext is canceled
    termDone,       \* termContext is canceled
    hPc,            \* position of signalHandler
    signalSent,     \* the signal is in channel c
    graceFired,     \* timer.C of signalHandler holds a value
    wg,             \* the counter of main's WaitGroup
    loopPc,         \* position of the ListenForever loop of every datatype
    cancelCalls,    \* history: the cancel functions signalHandler has called, in order
    \* ---- uploader.Upload (src/uploader/uploader.go) ----
    upPc,           \* position of Upload: "idle" | "write" | "loop" | "close" | "returned"
    upContents,     \* Upload: contents
    upN,            \* Upload: n
    upErr,          \* Upload: err is not nil
    upWritten,      \* history: the bytes the writer has taken, in order
    upWrites,       \* history: number of calls of writer.Write
    upWriteFailed,  \* history: a call of writer.Write returned an error
    upClosed,       \* history: writer.Close was called
    upResult,       \* what Upload returned: "none" | "nil" | "error"
    \* ---- one Tarfile and the contents of its archive (src/unnamed/part_002) ----
    tPc,            \* "idle" | "open" | "fatal" (rtx.Must ended the process) | "done"
    tDisk,          \* system path -> the version of the file on disk, 0 when there is none
    tTar,           \* the tarfile
    tArchive,       \* what t.tarWriter was given: one header with data per member
    tUploaded,      \* the archive handed to uploader.Upload
    tUploadCalls,   \* number of calls of uploader.Upload
    tAdds,          \* number of calls of Add
    tAdmitted,      \* history: system path -> the version the file had when it was admitted
    tChanged,       \* history: the members written or deleted on disk since their admission
    \* ---- t.fileChannel as ListenForever reads it (src/unnamed/part_008) ----
    chPc,           \* "idle" | "select" | "returned"
    chBuffer,       \* the filenames the channel buffers
    chClosed,       \* close(fileChannel) was called
    chKilled,       \* killCtx is canceled
    chReturnedBy,   \* the case that returned: "" | "closed" | "kill"
    chSent,         \* history: the filenames sent, in order
    chAdded,        \* history: the filenames handed to t.add, in order
    chAddedClosed,  \* history: how many of them were received after the close
    \* ---- one TarCache naming one file (src/filename, src/unnamed/part_008) ----
    fn,             \* the TarCache and the call of add: a record, see InitFilename
    \* ---- the tarfiles of several datatypes and the -metadata flag (src/unnamed/part_002) ----
    md              \* the maps, tarfiles and headers: a record, see InitMetadata

retryVars == <<rPc, initialBackoff, maxBackoff, waitTime, rCalls, rFailures, rSleep, rDrawn,
               rLastErr, pusherRetries, pusherMaxRetries, retryTimes>>

cacheVars == <<disk, fileChannel, chanClosed, sendsLeft, timeoutSenders, currentTarfile,
               pc, flushSubdir, termCanceled, killCanceled, uploadFails, duplicates,
               returnedBy, metrics, committed, removeFailsLeft>>

finderVars == <<fsys, clock, fPc, eligibleTime, toVisit, eligibleFiles, walkErr, fileList,
                emitted, lastSweep, sweeps>>

mainVars == <<mPc, dryRun, ctxDone, killDone, termDone, hPc, signalSent, graceFired, wg, loopPc,
              cancelCalls>>

uploadVars == <<upPc, upContents, upN, upErr, upWritten, upWrites, upWriteFailed, upClosed,
                upResult>>

tarfileVars == <<tPc, tDisk, tTar, tArchive, tUploaded, tUploadCalls, tAdds, tAdmitted,
                 tChanged>>

channelVars == <<chPc, chBuffer, chClosed, chKilled, chReturnedBy, chSent, chAdded,
                 chAddedClosed>>

filenameVars == <<fn>>

metadataVars == <<md>>

\* What the actions of one machine leave alone: the other machines.
nonCacheVars == <<retryVars, finderVars, mainVars, uploadVars, tarfileVars, channelVars,
                  filenameVars, metadataVars>>

nonRetryVars == <<cacheVars, finderVars, mainVars, uploadVars, tarfileVars, channelVars,
                  filenameVars, metadataVars>>

nonFinderVars == <<retryVars, cacheVars, mainVars, uploadVars, tarfileVars, channelVars,
                   filenameVars, metadataVars>>

nonMainVars == <<retryVars, cacheVars, finderVars, uploadVars, tarfileVars, channelVars,
                 filenameVars, metadataVars>>

nonUploadVars == <<retryVars, cacheVars, finderVars, mainVars, tarfileVars, channelVars,
                   filenameVars, metadataVars>>

nonTarfileVars == <<retryVars, cacheVars, finderVars, mainVars, uploadVars, channelVars,
                    filenameVars, metadataVars>>

nonChannelVars == <<retryVars, cacheVars, finderVars, mainVars, uploadVars, tarfileVars,
                    filenameVars, metadataVars>>

nonFilenameVars == <<retryVars, cacheVars, finderVars, mainVars, uploadVars, tarfileVars,
                     channelVars, metadataVars>>

nonMetadataVars == <<retryVars, cacheVars, finderVars, mainVars, uploadVars, tarfileVars,
                  channelVars, filenameVars>>

vars == <<retryVars, cacheVars, finderVars, mainVars, uploadVars, tarfileVars, channelVars,
          filenameVars, metadataVars>>

(***************************************************************************)
(* Bounds of the model.                                                    *)
(***************************************************************************)
MaxInitial == 4     \* initialBackoff is drawn from 1..MaxInitial
MaxCeiling == 6     \* maxBackoff is drawn from 2..MaxCeiling
MaxRetryFails == 5  \* f fails at most this many times in one Retry
MaxEmit == 3        \* filenames sent into fileChannel in one run of Spec
MaxLiveEmit == 1    \* the same in one run of LiveSpec and of LiveTimerSpec
MaxUploadFails == 1 \* failed Upload calls in one run
MaxFaultEmit == 2   \* the same in one run of SpecFaults
MaxRemoveFails == 1 \* os.Remove calls refused on a file that exists, in one run of SpecFaults
MaxSweeps == 2      \* sweeps of the finder in one run
MaxHours == 1       \* hours that pass in one run of the finder
MaxLen == 3         \* length of the buffer given to Upload
MaxWrites == 3      \* calls of writer.Write in one Upload
MaxAdds == 3        \* calls of Add on the one Tarfile of SpecTarfile
MaxSent == 3        \* filenames sent on the channel of SpecChannel

(***************************************************************************)
(* backoff.Retry                                                           *)
(***************************************************************************)

\* rand.Int63n(n): the values it can return (it panics for n <= 0, which the
\* inputs below, maxBackoff >= 2, never produce).
Int63n(n) == 0 .. (n - 1)

\* The ceiling draw: (ns/2) + rand.Int63n(ns/2)
CeilingDraws(ns) == { (ns \div 2) + r : r \in Int63n(ns \div 2) }

\* A retrier without the ceiling: it sleeps waitTime whatever maxBackoff is.
SleepChoicesNoCeiling(w, maxB) == {w}

\* The sleeps the loop body can choose when entered with waitTime w.
SleepChoices(w, maxB) == IF w > maxB THEN CeilingDraws(maxB) ELSE {w}

\* timeOf: the value of the label "success" of the observation,
\* fmt.Sprintf("%t", err != nil), for a call of f that returned err.
SuccessLabel(err) == IF err # "nil" THEN "true" ELSE "false"

\* retryTimes before any observation.
NoObservations == [success \in {"true", "false"} |-> 0]

\* timeOf: retryTimes.WithLabelValues(label, ...).Observe(delta.Seconds())
Observe(h, err) == [h EXCEPT ![SuccessLabel(err)] = @ + 1]

InitRetry ==
    /\ rPc = "call"
    /\ initialBackoff \in 1 .. MaxInitial
    /\ maxBackoff \in 2 .. MaxCeiling
    /\ waitTime = initialBackoff
    /\ rCalls = 0
    /\ rFailures = 0
    /\ rSleep = 0
    /\ rDrawn = FALSE
    /\ rLastErr = "none"
    /\ pusherRetries = 0
    /\ pusherMaxRetries = 0
    /\ retryTimes = NoObservations

IdleRetry ==
    /\ rPc = "idle"
    /\ initialBackoff = 0
    /\ maxBackoff = 0
    /\ waitTime = 0
    /\ rCalls = 0
    /\ rFailures = 0
    /\ rSleep = 0
    /\ rDrawn = FALSE
    /\ rLastErr = "none"
    /\ pusherRetries = 0
    /\ pusherMaxRetries = 0
    /\ retryTimes = NoObservations

\* A retrier that gives up once the ceiling is reached: it returns after a
\* failed call instead of drawing a delay.
RetryGivesUpAtCeiling ==
    /\ rPc = "call"
    /\ rFailures < MaxRetryFails
    /\ rCalls' = rCalls + 1
    /\ rFailures' = rFailures + 1
    /\ rLastErr' = "error"
    /\ IF waitTime > maxBackoff
       THEN /\ rPc' = "returned"
            /\ UNCHANGED <<waitTime, rSleep, rDrawn>>
       ELSE /\ rPc' = "sleep"
            /\ rSleep' = waitTime
            /\ rDrawn' = FALSE
            /\ UNCHANGED waitTime
    /\ UNCHANGED <<nonRetryVars, initialBackoff, maxBackoff, pusherRetries, pusherMaxRetries,
                   retryTimes>>

\* timeOf(label, f) returned err != nil: the loop body runs up to time.Sleep.
RetryCallFails ==
    /\ rPc = "call"
    /\ rFailures < MaxRetryFails
    /\ rCalls' = rCalls + 1
    /\ rFailures' = rFailures + 1
    /\ rLastErr' = "error"
    /\ \E w \in SleepChoices(waitTime, maxBackoff) :
          /\ waitTime' = w
          /\ rSleep' = w
    /\ rDrawn' = (waitTime > maxBackoff)
    /\ retryTimes' = Observe(retryTimes, "error")
    /\ pusherMaxRetries' = pusherMaxRetries + (IF waitTime > maxBackoff THEN 1 ELSE 0)
    /\ pusherRetries' = pusherRetries + 1
    /\ rPc' = "sleep"
    /\ UNCHANGED <<nonRetryVars, initialBackoff, maxBackoff>>

\* time.Sleep returned: waitTime *= 2, and f is called again.
RetrySleepDone ==
    /\ rPc = "sleep"
    /\ waitTime' = waitTime * 2
    /\ rSleep' = 0
    /\ rDrawn' = FALSE
    /\ rPc' = "call"
    /\ UNCHANGED <<nonRetryVars, initialBackoff, maxBackoff, rCalls, rFailures, rLastErr,
                   pusherRetries, pusherMaxRetries, retryTimes>>

\* A retrier that counts the call that succeeded as a retry too.
RetryCallSucceedsCounted ==
    /\ rPc = "call"
    /\ rCalls' = rCalls + 1
    /\ rLastErr' = "nil"
    /\ retryTimes' = Observe(retryTimes, "nil")
    /\ pusherRetries' = pusherRetries + 1
    /\ rPc' = "returned"
    /\ UNCHANGED <<nonRetryVars, initialBackoff, maxBackoff, waitTime, rFailures, rSleep, rDrawn,
                   pusherMaxRetries>>

\* timeOf(label, f) returned err == nil: the loop condition fails, Retry returns.
RetryCallSucceeds ==
    /\ rPc = "call"
    /\ rCalls' = rCalls + 1
    /\ rLastErr' = "nil"
    /\ retryTimes' = Observe(retryTimes, "nil")
    /\ rPc' = "returned"
    /\ UNCHANGED <<nonRetryVars, initialBackoff, maxBackoff, waitTime, rFailures, rSleep, rDrawn,
                   pusherRetries, pusherMaxRetries>>

NextRetry ==
    \/ RetryCallFails
    \/ RetrySleepDone
    \/ RetryCallSucceeds

(***************************************************************************)
(* Properties of backoff.Retry, checked under SpecRetry.                   *)
(***************************************************************************)
Pow2(n) == IF n <= 0 THEN 1 ELSE 2 ^ n

SleepDoublesUpToCeiling ==
    (rPc = "sleep" /\ initialBackoff <= maxBackoff) =>
        /\ rSleep <= maxBackoff
        /\ (initialBackoff * Pow2(rFailures - 1) <= maxBackoff
               => rSleep = initialBackoff * Pow2(rFailures - 1))

\* C3 witness: the third sleep is four times the initial one and still at or
\* below the ceiling.
ThirdSleepIsFourfold ==
    /\ rPc = "sleep"
    /\ rFailures = 3
    /\ initialBackoff * 4 <= maxBackoff
    /\ rSleep = initialBackoff * 4

(***************************************************************************)
(* Filenames.  A path is the sequence of its '/'-separated segments; the   *)
(* root directory, which TarCache.New makes end with '/', is a sequence of *)
(* whole segments.                                                         *)
(***************************************************************************)
rootDirectory == <<"root">>

\* The system paths the producer writes (two in subdir a, one in subdir b).
Files == { <<"root", "a", "f1">>, <<"root", "a", "f2">>, <<"root", "b", "f3">> }

IsPrefix(p, s) == Len(p) <= Len(s) /\ SubSeq(s, 1, Len(p)) = p

\* filename.System.Internal: strings.TrimPrefix(s, rootDirectory)
Internal(s, root) == IF IsPrefix(root, s) THEN SubSeq(s, Len(root) + 1, Len(s)) ELSE s

Min(a, b) == IF a < b THEN a ELSE b

\* filename.Internal.Subdir: the first min(3, n-1) segments, "" when n <= 1
Subdir(l) == IF Len(l) <= 1 THEN <<>> ELSE SubSeq(l, 1, Min(3, Len(l) - 1))

Subdirs == { Subdir(Internal(f, rootDirectory)) : f \in Files }

NoSubdir == <<"-">>

\* TarCache.sizeThreshold, in the units of GzipLen.
sizeThreshold == 2

\* What one admitted file adds to contents.Len() once both writers are
\* flushed (tar header, data and gzip sync marker: always more than zero).
GzipLen(f) ==
    CASE f = <<"root", "a", "f1">> -> 1
      [] f = <<"root", "a", "f2">> -> 2
      [] OTHER -> 1

(***************************************************************************)
(* tarfile (src/unnamed/part_002)                                          *)
(***************************************************************************)
EmptyMap == [x \in {} |-> <<>>]

Put(m, k, v) == [x \in (DOMAIN m) \cup {k} |-> IF x = k THEN v ELSE m[x]]

Range(m) == { m[x] : x \in DOMAIN m }

\* tarfile.New.  timeout is the *time.Timer: "nil" until makeTimer ran, then
\* "running", "fired" (its function was started) or "stopped".  state,
\* uploaded, removed and removeErrs record how far UploadAndDelete got
\* (removed: the members handed to removeFile; removeErrs: those for which
\* removeFile counted an error); timerCalls counts the calls of the timer
\* factory made by this tarfile.
New ==
    [ members |-> EmptyMap, skipped |-> EmptyMap, contents |-> <<>>, size |-> 0,
      timeout |-> "nil", timerCalls |-> 0,
      state |-> "open", uploaded |-> FALSE, removed |-> {}, removeErrs |-> {} ]

\* tarfile.Size
Size(tf) == tf.size

\* tarfile.Add without its check of t.members.
AddOutcomeNoMemberCheck(tf, name, skip, statOK, readOK) ==
    IF name \in DOMAIN tf.skipped THEN "dup_skip"
    ELSE IF skip THEN "skipped"
    ELSE IF ~statOK THEN "stat_error"
    ELSE IF ~readOK THEN "read_error"
    ELSE "added"

\* tarfile.Add without its check of t.skipped.
AddOutcomeNoSkipCheck(tf, name, skip, statOK, readOK) ==
    IF name \in DOMAIN tf.members THEN "dup_add"
    ELSE IF skip THEN "skipped"
    ELSE IF ~statOK THEN "stat_error"
    ELSE IF ~readOK THEN "read_error"
    ELSE "added"

\* Which return of tarfile.Add is taken.  skip is the outcome of
\* rand.Float64() >= t.fileRatio, statOK of file.Stat(), readOK of io.Copy.
AddOutcome(tf, name, skip, statOK, readOK) ==
    IF name \in DOMAIN tf.skipped THEN "dup_skip"
    ELSE IF name \in DOMAIN tf.members THEN "dup_add"
    ELSE IF skip THEN "skipped"
    ELSE IF ~statOK THEN "stat_error"
    ELSE IF ~readOK THEN "read_error"
    ELSE "added"

\* tarfile.Add calling the timer factory at every admission, not only the
\* first.
AddAlwaysStartsTimer(tf, name, fname, skip, statOK, readOK) ==
    LET outcome == AddOutcome(tf, name, skip, statOK, readOK) IN
    CASE outcome = "skipped" ->
            [tf EXCEPT !.skipped = Put(tf.skipped, name, fname)]
      [] outcome = "added" ->
            [tf EXCEPT !.contents = Append(tf.contents, name),
                       !.size = tf.size + GzipLen(fname),
                       !.timeout = "running",
                       !.timerCalls = tf.timerCalls + 1,
                       !.members = Put(tf.members, name, fname)]
      [] OTHER -> tf

\* tarfile.Add writing the new member in front of the archive.
AddPrepends(tf, name, fname, skip, statOK, readOK) ==
    LET outcome == AddOutcome(tf, name, skip, statOK, readOK) IN
    CASE outcome = "skipped" ->
            [tf EXCEPT !.skipped = Put(tf.skipped, name, fname)]
      [] outcome = "added" ->
            [tf EXCEPT !.contents = <<name>> \o tf.contents,
                       !.size = tf.size + GzipLen(fname),
                       !.timeout = IF DOMAIN tf.members = {} THEN "running" ELSE tf.timeout,
                       !.timerCalls = IF DOMAIN tf.members = {} THEN tf.timerCalls + 1
                                      ELSE tf.timerCalls,
                       !.members = Put(tf.members, name, fname)]
      [] OTHER -> tf

\* tarfile.Add starting the archive afresh when Stat or the read fails.
AddResetsOnError(tf, name, fname, skip, statOK, readOK) ==
    LET outcome == AddOutcome(tf, name, skip, statOK, readOK) IN
    CASE outcome = "skipped" ->
            [tf EXCEPT !.skipped = Put(tf.skipped, name, fname)]
      [] outcome \in {"stat_error", "read_error"} ->
            [tf EXCEPT !.contents = <<>>, !.size = 0]
      [] outcome = "added" ->
            [tf EXCEPT !.contents = Append(tf.contents, name),
                       !.size = tf.size + GzipLen(fname),
                       !.timeout = IF DOMAIN tf.members = {} THEN "running" ELSE tf.timeout,
                       !.timerCalls = IF DOMAIN tf.members = {} THEN tf.timerCalls + 1
                                      ELSE tf.timerCalls,
                       !.members = Put(tf.members, name, fname)]
      [] OTHER -> tf

\* tarfile.Add writing the header before it reads the file: a file whose
\* read failed leaves its header in the archive.
AddWritesHeaderBeforeRead(tf, name, fname, skip, statOK, readOK) ==
    LET outcome == AddOutcome(tf, name, skip, statOK, readOK) IN
    CASE outcome = "skipped" ->
            [tf EXCEPT !.skipped = Put(tf.skipped, name, fname)]
      [] outcome = "read_error" ->
            [tf EXCEPT !.contents = Append(tf.contents, name),
                       !.size = tf.size + 1]
      [] outcome = "added" ->
            [tf EXCEPT !.contents = Append(tf.contents, name),
                       !.size = tf.size + GzipLen(fname),
                       !.timeout = IF DOMAIN tf.members = {} THEN "running" ELSE tf.timeout,
                       !.timerCalls = IF DOMAIN tf.members = {} THEN tf.timerCalls + 1
                                      ELSE tf.timerCalls,
                       !.members = Put(tf.members, name, fname)]
      [] OTHER -> tf

\* tarfile.Add copying the file straight into the archive: a file whose
\* read failed is counted as an error and is a member all the same.
AddKeepsUnreadFile(tf, name, fname, skip, statOK, readOK) ==
    LET outcome == AddOutcome(tf, name, skip, statOK, readOK) IN
    CASE outcome = "skipped" ->
            [tf EXCEPT !.skipped = Put(tf.skipped, name, fname)]
      [] outcome \in {"added", "read_error"} ->
            [tf EXCEPT !.contents = Append(tf.contents, name),
                       !.size = tf.size + GzipLen(fname),
                       !.timeout = IF DOMAIN tf.members = {} THEN "running" ELSE tf.timeout,
                       !.timerCalls = IF DOMAIN tf.members = {} THEN tf.timerCalls + 1
                                      ELSE tf.timerCalls,
                       !.members = Put(tf.members, name, fname)]
      [] OTHER -> tf

\* tarfile.Add: the tarfile after the call.
Add(tf, name, fname, skip, statOK, readOK) ==
    LET outcome == AddOutcome(tf, name, skip, statOK, readOK) IN
    CASE outcome = "skipped" ->
            [tf EXCEPT !.skipped = Put(tf.skipped, name, fname)]
      [] outcome = "added" ->
            [tf EXCEPT !.contents = Append(tf.contents, name),
                       !.size = tf.size + GzipLen(fname),
                       !.timeout = IF DOMAIN tf.members = {} THEN "running" ELSE tf.timeout,
                       !.timerCalls = IF DOMAIN tf.members = {} THEN tf.timerCalls + 1
                                      ELSE tf.timerCalls,
                       !.members = Put(tf.members, name, fname)]
      [] OTHER -> tf

\* An UploadAndDelete that uploads a tarfile without members too.
UploadAndDeleteWithoutEmptyCheck(tf) ==
    [tf EXCEPT !.state = "retry",
               !.timeout = IF tf.timeout = "running" THEN "stopped" ELSE tf.timeout]

\* tarfile.UploadAndDelete up to its first call of Upload: the skipped files
\* are removed, an empty tarfile returns at once, otherwise the timer is
\* stopped, the writers are closed and backoff.Retry is entered.
UploadAndDeleteBegin(tf) ==
    IF DOMAIN tf.members = {}
    THEN [tf EXCEPT !.state = "done"]
    ELSE [tf EXCEPT !.state = "retry",
                    !.timeout = IF tf.timeout = "running" THEN "stopped" ELSE tf.timeout]

\* A removeFile that takes a file that is not there as removed and counts
\* no error for it.
removeFileIgnoresMissing(files, existing, failing) ==
    [ gone |-> (files \cap existing) \ failing,
      errors |-> files \cap existing \cap failing ]

\* A removal loop that returns at the first os.Remove error.
removeFileStopsAtError(files, existing, failing) ==
    LET errs == (files \ existing) \cup (files \cap failing) IN
    IF errs = {}
    THEN [ gone |-> files, errors |-> {} ]
    ELSE [ gone |-> {}, errors |-> {CHOOSE e \in errs : TRUE} ]

\* tarfile.removeFile called for every file of files: os.Remove returns an
\* error for a file that is not there (not in existing) and for a file the
\* system refuses to remove (in failing); the error is counted and the loop
\* goes on.  gone: the files removed; errors: the files counted.
removeFile(files, existing, failing) ==
    [ gone |-> (files \cap existing) \ failing,
      errors |-> (files \ existing) \cup (files \cap failing) ]

\* tarfile.UploadAndDelete after Upload returned nil: every member is handed
\* to removeFile.
UploadAndDeleteFinish(tf, existing, failing) ==
    [tf EXCEPT !.state = "done", !.uploaded = TRUE, !.removed = Range(tf.members),
               !.removeErrs = removeFile(Range(tf.members), existing, failing).errors]

(***************************************************************************)
(* TarCache (src/unnamed/part_008)                                         *)
(***************************************************************************)
Remove(m, k) == [x \in (DOMAIN m) \ {k} |-> m[x]]

\* The counters pusherFileOpenErrors (tarcache.go), pusherFileReadErrors and
\* pusherFileRemoveErrors (tarfile.go, by condition) at program start.
NoMetrics ==
    [ pusherFileOpenErrors |-> 0, pusherFileReadErrors |-> 0,
      pusherFileRemoveErrors |-> [add_file |-> 0, skip_file |-> 0] ]

\* Which of the files of candidates os.Remove refuses to remove in one run
\* of the removal loop: none, or (while refusals are left) one of them.
FailChoices(candidates) ==
    {{}} \cup (IF removeFailsLeft > 0 THEN { {f} : f \in candidates } ELSE {})

\* tarcache.New, with producers that will send at most sends filenames and
\* a file system that will refuse at most fails removals.
InitCache(sends, fails) ==
    /\ disk = Files
    /\ fileChannel = <<>>
    /\ chanClosed = FALSE
    /\ sendsLeft = sends
    /\ timeoutSenders = [s \in Subdirs |-> 0]
    /\ currentTarfile = EmptyMap
    /\ pc = "select"
    /\ flushSubdir = NoSubdir
    /\ termCanceled = FALSE
    /\ killCanceled = FALSE
    /\ uploadFails = 0
    /\ duplicates = [add_file |-> 0, skip_file |-> 0]
    /\ returnedBy = ""
    /\ metrics = NoMetrics
    /\ committed = {}
    /\ removeFailsLeft = fails

IdleCache ==
    /\ disk = {}
    /\ fileChannel = <<>>
    /\ chanClosed = FALSE
    /\ sendsLeft = 0
    /\ timeoutSenders = [s \in Subdirs |-> 0]
    /\ currentTarfile = EmptyMap
    /\ pc = "idle"
    /\ flushSubdir = NoSubdir
    /\ termCanceled = FALSE
    /\ killCanceled = FALSE
    /\ uploadFails = 0
    /\ duplicates = [add_file |-> 0, skip_file |-> 0]
    /\ returnedBy = ""
    /\ metrics = NoMetrics
    /\ committed = {}
    /\ removeFailsLeft = 0

\* A TarCache.uploadAndDelete that runs tf.UploadAndDelete in a goroutine of
\* its own and lets the loop select again while the upload goes on.
uploadAndDeleteInBackground(tarfiles, subdir, m) ==
    IF subdir \in DOMAIN tarfiles
    THEN \E failing \in FailChoices(Range(tarfiles[subdir].skipped) \cap disk) :
         LET tf == UploadAndDeleteBegin(tarfiles[subdir])
             r == removeFile(Range(tarfiles[subdir].skipped), disk, failing)
         IN /\ disk' = disk \ r.gone
            /\ metrics' = [m EXCEPT !.pusherFileRemoveErrors.skip_file =
                                        @ + Cardinality(r.errors)]
            /\ removeFailsLeft' = removeFailsLeft - Cardinality(failing)
            /\ currentTarfile' = IF tf.state = "done" THEN Remove(tarfiles, subdir)
                                 ELSE Put(tarfiles, subdir, tf)
            /\ UNCHANGED <<nonCacheVars, pc, flushSubdir>>
    ELSE /\ currentTarfile' = tarfiles
         /\ metrics' = m
         /\ UNCHANGED <<nonCacheVars, disk, pc, flushSubdir, removeFailsLeft>>

\* TarCache.uploadAndDelete(subdir) applied to the map tarfiles, up to the
\* first Upload call of tf.UploadAndDelete: the skipped files are handed to
\* removeFile, an empty tarfile is dropped from the map at once, a
\* nonexistent subdir is only logged.  m is the counters as the handler left
\* them before the call.
uploadAndDelete(tarfiles, subdir, m) ==
    IF subdir \in DOMAIN tarfiles
    THEN \E failing \in FailChoices(Range(tarfiles[subdir].skipped) \cap disk) :
         LET tf == UploadAndDeleteBegin(tarfiles[subdir])
             r == removeFile(Range(tarfiles[subdir].skipped), disk, failing)
         IN /\ disk' = disk \ r.gone
            /\ metrics' = [m EXCEPT !.pusherFileRemoveErrors.skip_file =
                                        @ + Cardinality(r.errors)]
            /\ removeFailsLeft' = removeFailsLeft - Cardinality(failing)
            /\ IF tf.state = "done"
               THEN /\ currentTarfile' = Remove(tarfiles, subdir)
                    /\ UNCHANGED <<nonCacheVars, pc, flushSubdir>>
               ELSE /\ currentTarfile' = Put(tarfiles, subdir, tf)
                    /\ pc' = "flush"
                    /\ flushSubdir' = subdir
    ELSE /\ currentTarfile' = tarfiles
         /\ metrics' = m
         /\ UNCHANGED <<nonCacheVars, disk, pc, flushSubdir, removeFailsLeft>>

\* The threshold test of TarCache.add written with >= instead of >.
AtOrOverThreshold(tf) == Size(tf) >= sizeThreshold

\* TarCache.add: tf.Size() > t.sizeThreshold
OverThreshold(tf) == Size(tf) > sizeThreshold

\* A TarCache.add that keeps one tarfile for the whole cache, whatever the
\* subdir of the file.
RecvFileOneTarfile ==
    /\ pc = "select"
    /\ fileChannel # <<>>
    /\ fileChannel' = Tail(fileChannel)
    /\ LET fname == Head(fileChannel)
           internalName == Internal(fname, rootDirectory)
           subdir == CHOOSE x \in Subdirs : TRUE
       IN IF fname \notin disk
          THEN \* os.Open failed
               /\ metrics' = [metrics EXCEPT !.pusherFileOpenErrors = @ + 1]
               /\ UNCHANGED <<disk, currentTarfile, pc, flushSubdir, duplicates,
                              removeFailsLeft>>
          ELSE \E skip \in BOOLEAN, statOK \in BOOLEAN, readOK \in BOOLEAN :
               LET old == IF subdir \in DOMAIN currentTarfile
                          THEN currentTarfile[subdir] ELSE New
                   outcome == AddOutcome(old, internalName, skip, statOK, readOK)
                   tf == Add(old, internalName, fname, skip, statOK, readOK)
                   tarfiles == Put(currentTarfile, subdir, tf)
                   failed == outcome \in {"stat_error", "read_error"}
                   m == [metrics EXCEPT !.pusherFileReadErrors =
                                            @ + (IF failed THEN 1 ELSE 0)]
               IN /\ duplicates' =
                        [add_file |-> duplicates.add_file + (IF outcome = "dup_add" THEN 1 ELSE 0),
                         skip_file |-> duplicates.skip_file + (IF outcome = "dup_skip" THEN 1 ELSE 0)]
                  /\ IF OverThreshold(tf)
                     THEN uploadAndDelete(tarfiles, subdir, m)
                     ELSE /\ currentTarfile' = tarfiles
                          /\ metrics' = m
                          /\ UNCHANGED <<nonCacheVars, disk, pc, flushSubdir, removeFailsLeft>>
    /\ UNCHANGED <<nonCacheVars, chanClosed, sendsLeft, timeoutSenders, termCanceled, killCanceled,
                   uploadFails, returnedBy, committed>>

\* case dataFile, channelOpen := <-t.fileChannel with channelOpen: t.add(dataFile)
RecvFile ==
    /\ pc = "select"
    /\ fileChannel # <<>>
    /\ fileChannel' = Tail(fileChannel)
    /\ LET fname == Head(fileChannel)
           internalName == Internal(fname, rootDirectory)
           subdir == Subdir(internalName)
       IN IF fname \notin disk
          THEN \* os.Open failed
               /\ metrics' = [metrics EXCEPT !.pusherFileOpenErrors = @ + 1]
               /\ UNCHANGED <<disk, currentTarfile, pc, flushSubdir, duplicates,
                              removeFailsLeft>>
          ELSE \E skip \in BOOLEAN, statOK \in BOOLEAN, readOK \in BOOLEAN :
               LET old == IF subdir \in DOMAIN currentTarfile
                          THEN currentTarfile[subdir] ELSE New
                   outcome == AddOutcome(old, internalName, skip, statOK, readOK)
                   tf == Add(old, internalName, fname, skip, statOK, readOK)
                   tarfiles == Put(currentTarfile, subdir, tf)
                   failed == outcome \in {"stat_error", "read_error"}
                   m == [metrics EXCEPT !.pusherFileReadErrors =
                                            @ + (IF failed THEN 1 ELSE 0)]
               IN /\ duplicates' =
                        [add_file |-> duplicates.add_file + (IF outcome = "dup_add" THEN 1 ELSE 0),
                         skip_file |-> duplicates.skip_file + (IF outcome = "dup_skip" THEN 1 ELSE 0)]
                  /\ IF OverThreshold(tf)
                     THEN uploadAndDelete(tarfiles, subdir, m)
                     ELSE /\ currentTarfile' = tarfiles
                          /\ metrics' = m
                          /\ UNCHANGED <<nonCacheVars, disk, pc, flushSubdir, removeFailsLeft>>
    /\ UNCHANGED <<nonCacheVars, chanClosed, sendsLeft, timeoutSenders, termCanceled, killCanceled,
                   uploadFails, returnedBy, committed>>

\* A loop that ignores the closing of the channel and selects again.
RecvClosedIgnored ==
    /\ pc = "select"
    /\ chanClosed
    /\ fileChannel = <<>>
    /\ UNCHANGED vars

\* case dataFile, channelOpen := <-t.fileChannel with !channelOpen: return.
\* A closed channel delivers what it still buffers before it reports closed.
RecvClosed ==
    /\ pc = "select"
    /\ chanClosed
    /\ fileChannel = <<>>
    /\ pc' = "returned"
    /\ returnedBy' = "closed"
    /\ UNCHANGED <<nonCacheVars, metrics, committed, removeFailsLeft, disk, fileChannel, chanClosed, sendsLeft, timeoutSenders, currentTarfile,
                   flushSubdir, termCanceled, killCanceled, uploadFails, duplicates>>

\* case subdir := <-t.timeoutChannel: t.uploadAndDelete(subdir)
RecvTimeout(s) ==
    /\ pc = "select"
    /\ timeoutSenders[s] > 0
    /\ timeoutSenders' = [timeoutSenders EXCEPT ![s] = @ - 1]
    /\ uploadAndDelete(currentTarfile, s, metrics)
    /\ UNCHANGED <<nonCacheVars, fileChannel, chanClosed, sendsLeft, termCanceled, killCanceled,
                   uploadFails, duplicates, returnedBy, committed>>

\* TarCache.uploadAll up to wg.Wait(): one goroutine per active tarfile, each
\* running tf.UploadAndDelete up to its first Upload call.
uploadAll(next) ==
    LET allSkipped == UNION { Range(currentTarfile[s].skipped) : s \in DOMAIN currentTarfile } IN
    \E failing \in FailChoices(allSkipped \cap disk) :
    LET r == removeFile(allSkipped, disk, failing) IN
    /\ currentTarfile' = [s \in DOMAIN currentTarfile |-> UploadAndDeleteBegin(currentTarfile[s])]
    /\ disk' = disk \ r.gone
    /\ metrics' = [metrics EXCEPT !.pusherFileRemoveErrors.skip_file = @ + Cardinality(r.errors)]
    /\ removeFailsLeft' = removeFailsLeft - Cardinality(failing)
    /\ pc' = next

\* case <-termCtx.Done(): t.uploadAll()
SelectTerm ==
    /\ pc = "select"
    /\ termCanceled
    /\ uploadAll("uploadAllTerm")
    /\ UNCHANGED <<nonCacheVars, fileChannel, chanClosed, sendsLeft, timeoutSenders, flushSubdir,
                   termCanceled, killCanceled, uploadFails, duplicates, returnedBy, committed>>

\* A kill case that returns without calling uploadAll.
SelectKillReturnsAtOnce ==
    /\ pc = "select"
    /\ killCanceled
    /\ pc' = "returned"
    /\ returnedBy' = "kill"
    /\ UNCHANGED <<nonCacheVars, metrics, committed, removeFailsLeft, disk, fileChannel, chanClosed, sendsLeft, timeoutSenders,
                   currentTarfile, flushSubdir, termCanceled, killCanceled, uploadFails,
                   duplicates>>

\* case <-killCtx.Done(): t.uploadAll(); return
SelectKill ==
    /\ pc = "select"
    /\ killCanceled
    /\ uploadAll("uploadAllKill")
    /\ UNCHANGED <<nonCacheVars, fileChannel, chanClosed, sendsLeft, timeoutSenders, flushSubdir,
                   termCanceled, killCanceled, uploadFails, duplicates, returnedBy, committed>>

\* A retrier that returns after a failed Upload: UploadAndDelete goes on to
\* remove the members of an archive that was never uploaded.
UploadGivesUp(s) ==
    /\ s \in DOMAIN currentTarfile
    /\ currentTarfile[s].state = "retry"
    /\ uploadFails < MaxUploadFails
    /\ uploadFails' = uploadFails + 1
    /\ currentTarfile' = [currentTarfile EXCEPT ![s].state = "done",
                                                ![s].removed = Range(currentTarfile[s].members)]
    /\ disk' = disk \ Range(currentTarfile[s].members)
    /\ UNCHANGED <<nonCacheVars, metrics, committed, removeFailsLeft, fileChannel, chanClosed, sendsLeft,
                   timeoutSenders, pc, flushSubdir, termCanceled, killCanceled, duplicates,
                   returnedBy>>

\* One call of uploader.Upload made by backoff.Retry returned an error: Retry
\* sleeps and calls again.
UploadFails(s) ==
    /\ s \in DOMAIN currentTarfile
    /\ currentTarfile[s].state = "retry"
    /\ uploadFails < MaxUploadFails
    /\ uploadFails' = uploadFails + 1
    /\ UNCHANGED <<nonCacheVars, metrics, committed, removeFailsLeft, disk, fileChannel, chanClosed, sendsLeft, timeoutSenders, currentTarfile,
                   pc, flushSubdir, termCanceled, killCanceled, duplicates, returnedBy>>

\* uploader.Upload returned nil: Retry returns and UploadAndDelete removes
\* the members and returns.
UploadSucceeds(s) ==
    /\ s \in DOMAIN currentTarfile
    /\ currentTarfile[s].state = "retry"
    /\ \E failing \in FailChoices(Range(currentTarfile[s].members) \cap disk) :
       LET r == removeFile(Range(currentTarfile[s].members), disk, failing) IN
       /\ currentTarfile' = [currentTarfile EXCEPT ![s] = UploadAndDeleteFinish(@, disk, failing)]
       /\ disk' = disk \ r.gone
       /\ metrics' = [metrics EXCEPT !.pusherFileRemoveErrors.add_file =
                                         @ + Cardinality(r.errors)]
       /\ committed' = committed \cup Range(currentTarfile[s].members)
       /\ removeFailsLeft' = removeFailsLeft - Cardinality(failing)
    /\ UNCHANGED <<nonCacheVars, fileChannel, chanClosed, sendsLeft, timeoutSenders, pc, flushSubdir,
                   termCanceled, killCanceled, uploadFails, duplicates, returnedBy>>

\* A TarCache.uploadAndDelete that leaves the uploaded tarfile in the map.
FlushReturnKeepsTarfile ==
    /\ pc = "flush"
    /\ currentTarfile[flushSubdir].state = "done"
    /\ pc' = "select"
    /\ flushSubdir' = NoSubdir
    /\ UNCHANGED <<nonCacheVars, metrics, committed, removeFailsLeft, disk, fileChannel,
                   chanClosed, sendsLeft, timeoutSenders, currentTarfile, termCanceled,
                   killCanceled, uploadFails, duplicates, returnedBy>>

\* TarCache.uploadAndDelete after tf.UploadAndDelete returned:
\* delete(t.currentTarfile, subdir), and back to the select.
FlushReturn ==
    /\ pc = "flush"
    /\ currentTarfile[flushSubdir].state = "done"
    /\ currentTarfile' = Remove(currentTarfile, flushSubdir)
    /\ pc' = "select"
    /\ flushSubdir' = NoSubdir
    /\ UNCHANGED <<nonCacheVars, metrics, committed, removeFailsLeft, disk, fileChannel, chanClosed, sendsLeft, timeoutSenders, termCanceled,
                   killCanceled, uploadFails, duplicates, returnedBy>>

\* An uploadAll without wg.Wait(): it clears the map while uploads run.
UploadAllReturnNoWait ==
    /\ pc \in {"uploadAllTerm", "uploadAllKill"}
    /\ currentTarfile' = EmptyMap
    /\ pc' = IF pc = "uploadAllKill" THEN "returned" ELSE "select"
    /\ returnedBy' = IF pc = "uploadAllKill" THEN "kill" ELSE returnedBy
    /\ UNCHANGED <<nonCacheVars, metrics, committed, removeFailsLeft, disk, fileChannel, chanClosed, sendsLeft, timeoutSenders,
                   flushSubdir, termCanceled, killCanceled, uploadFails, duplicates>>

\* TarCache.uploadAll after wg.Wait() returned: the map is replaced by an
\* empty one; ListenForever goes on (termCtx) or returns (killCtx).
UploadAllReturn ==
    /\ pc \in {"uploadAllTerm", "uploadAllKill"}
    /\ \A s \in DOMAIN currentTarfile : currentTarfile[s].state = "done"
    /\ currentTarfile' = EmptyMap
    /\ pc' = IF pc = "uploadAllKill" THEN "returned" ELSE "select"
    /\ returnedBy' = IF pc = "uploadAllKill" THEN "kill" ELSE returnedBy
    /\ UNCHANGED <<nonCacheVars, metrics, committed, removeFailsLeft, disk, fileChannel, chanClosed, sendsLeft, timeoutSenders, flushSubdir,
                   termCanceled, killCanceled, uploadFails, duplicates>>

\* A timer whose function never sends on t.timeoutChannel.
TimerFiresWithoutSend(s) ==
    /\ s \in DOMAIN currentTarfile
    /\ currentTarfile[s].timeout = "running"
    /\ currentTarfile' = [currentTarfile EXCEPT ![s].timeout = "fired"]
    /\ UNCHANGED <<nonCacheVars, metrics, committed, removeFailsLeft, disk, fileChannel,
                   chanClosed, sendsLeft, timeoutSenders, pc, flushSubdir, termCanceled,
                   killCanceled, uploadFails, duplicates, returnedBy>>

\* The function handed to memoryless.AfterFunc by makeTimer starts: its
\* goroutine blocks on t.timeoutChannel <- subdir until the loop receives.
TimerFires(s) ==
    /\ s \in DOMAIN currentTarfile
    /\ currentTarfile[s].timeout = "running"
    /\ currentTarfile' = [currentTarfile EXCEPT ![s].timeout = "fired"]
    /\ timeoutSenders' = [timeoutSenders EXCEPT ![s] = @ + 1]
    /\ UNCHANGED <<nonCacheVars, metrics, committed, removeFailsLeft, disk, fileChannel, chanClosed, sendsLeft, pc, flushSubdir, termCanceled,
                   killCanceled, uploadFails, duplicates, returnedBy>>

\* The listener or the finder sends the name of an existing file.
Emit(f) ==
    /\ ~chanClosed
    /\ sendsLeft > 0
    /\ f \in disk
    /\ fileChannel' = Append(fileChannel, f)
    /\ sendsLeft' = sendsLeft - 1
    /\ UNCHANGED <<nonCacheVars, metrics, committed, removeFailsLeft, disk, chanClosed, timeoutSenders, currentTarfile, pc, flushSubdir,
                   termCanceled, killCanceled, uploadFails, duplicates, returnedBy>>

\* The owner of the channel closes it.
CloseChannel ==
    /\ ~chanClosed
    /\ chanClosed' = TRUE
    /\ UNCHANGED <<nonCacheVars, metrics, committed, removeFailsLeft, disk, fileChannel, sendsLeft, timeoutSenders, currentTarfile, pc,
                   flushSubdir, termCanceled, killCanceled, uploadFails, duplicates,
                   returnedBy>>

\* The file is named in the channel or in a tarfile of the map.
InFlight(f) ==
    \/ \E i \in 1 .. Len(fileChannel) : fileChannel[i] = f
    \/ \E s \in DOMAIN currentTarfile :
           f \in Range(currentTarfile[s].members) \cup Range(currentTarfile[s].skipped)

\* Something other than pusher removes a file.  Only the removal of a file
\* in flight can be seen by the tar cache: a file removed at another time is
\* a file that is not sent again.
ExternalRemove(f) ==
    /\ f \in disk
    /\ InFlight(f)
    /\ disk' = disk \ {f}
    /\ UNCHANGED <<nonCacheVars, metrics, committed, removeFailsLeft, fileChannel, chanClosed, sendsLeft, timeoutSenders, currentTarfile, pc,
                   flushSubdir, termCanceled, killCanceled, uploadFails, duplicates,
                   returnedBy>>

\* signalHandler: termCancel()
CancelTerm ==
    /\ ~termCanceled
    /\ termCanceled' = TRUE
    /\ UNCHANGED <<nonCacheVars, metrics, committed, removeFailsLeft, disk, fileChannel, chanClosed, sendsLeft, timeoutSenders, currentTarfile,
                   pc, flushSubdir, killCanceled, uploadFails, duplicates, returnedBy>>

\* signalHandler: killCancel().  termContext is a child of killContext, so it
\* is canceled with it.
CancelKill ==
    /\ ~killCanceled
    /\ killCanceled' = TRUE
    /\ termCanceled' = TRUE
    /\ UNCHANGED <<nonCacheVars, metrics, committed, removeFailsLeft, disk, fileChannel, chanClosed, sendsLeft, timeoutSenders, currentTarfile,
                   pc, flushSubdir, uploadFails, duplicates, returnedBy>>

LoopStep ==
    \/ RecvFile
    \/ RecvClosed
    \/ \E s \in Subdirs : RecvTimeout(s)
    \/ SelectTerm
    \/ SelectKill
    \/ FlushReturn
    \/ UploadAllReturn

UploadStep ==
    \/ \E s \in Subdirs : UploadFails(s)
    \/ \E s \in Subdirs : UploadSucceeds(s)

EnvStep ==
    \/ \E s \in Subdirs : TimerFires(s)
    \/ \E f \in Files : Emit(f)
    \/ CloseChannel
    \/ \E f \in Files : ExternalRemove(f)
    \/ CancelTerm
    \/ CancelKill

NextCache ==
    \/ LoopStep
    \/ UploadStep
    \/ EnvStep

(***************************************************************************)
(* finder (src/finder/findfiles.go).  A path is the sequence of its        *)
(* segments below the directory that holds one directory per datatype;     *)
(* times are whole hours.                                                  *)
(***************************************************************************)
datatype == "d"

\* main: datadir = path.Join(*directory, datatype)
directory == <<datatype>>

\* const minDirectoryAge = 25 * time.Hour
minDirectoryAge == 25

\* flag max_file_age, default 4 hours
maxFileAge == 4

\* time.Now() when the finder starts.
StartClock == 30

FinderFiles == { <<"d", "f1">>, <<"d", "x", "f2">>, <<"d", "x", "f3">> }

\* x holds f2 and f3; e and d/d are empty, and d/d has the name of the datatype.
FinderDirs == { directory, <<"d", "x">>, <<"d", "e">>, <<"d", "d">> }

\* The order of the names in one directory (filepath.Walk visits them sorted).
NameOrder == <<"d", "e", "f1", "f2", "f3", "x">>

Rank(name) == CHOOSE i \in 1 .. Len(NameOrder) : NameOrder[i] = name

\* filepath.Base
Base(path) == path[Len(path)]

\* The entries of directory path in the tree t.
Children(t, path) == { q \in DOMAIN t : Len(q) = Len(path) + 1 /\ SubSeq(q, 1, Len(path)) = path }

RECURSIVE SortNames(_)
\* readDirNames: the entries of one directory, sorted by name.
SortNames(S) ==
    IF S = {} THEN <<>>
    ELSE LET first == CHOOSE q \in S : \A r \in S : Rank(Base(q)) <= Rank(Base(r))
         IN <<first>> \o SortNames(S \ {first})

\* The sequences that hold every element of S once.
Orderings(S) ==
    { q \in [1 .. Cardinality(S) -> S] : \A i, j \in 1 .. Cardinality(S) : q[i] = q[j] => i = j }

\* A list of findFiles left in whatever order the map gave it.
AnyOrder(t, S) == Orderings(S)

\* findFiles: the keys of eligibleFiles after sort.Slice with less =
\* ModTime().Before: map iteration and sort.Slice fix no order among files
\* of equal mtime.
SortedByMtime(t, S) ==
    { q \in Orderings(S) : \A i, j \in 1 .. Len(q) : i < j => ~(t[q[j]].mtime < t[q[i]].mtime) }

\* The test of findFiles written with mtime <= eligibleTime.
EligibleOrEqual(mtime, et) == ~(mtime > et)

\* findFiles: eligibleTime.After(info.ModTime())
Eligible(mtime, et) == et > mtime

\* checkDirectory up to os.Open: is the directory a candidate for removal?
OldEnough(path, mtime, now) ==
    /\ datatype # Base(path)
    /\ ~(mtime > now - minDirectoryAge)

\* os.Remove of an empty directory: the entry goes, and the directory that
\* held it is modified now.
RemoveDirectory(t, path, now) ==
    [q \in DOMAIN t \ {path} |->
        IF q = SubSeq(path, 1, Len(path) - 1) THEN [t[q] EXCEPT !.mtime = now] ELSE t[q]]

NoSweep == [done |-> FALSE, emitted |-> <<>>, eligibleTime |-> 0, err |-> FALSE]

\* A finder that is started on a tree of files and directories of some age.
InitFinder ==
    /\ \E fm \in [FinderFiles -> {StartClock - maxFileAge - 1, StartClock - maxFileAge}],
          em \in {StartClock - minDirectoryAge - 1, StartClock - minDirectoryAge,
                  StartClock - minDirectoryAge + 1} :
          fsys = [q \in FinderFiles \cup FinderDirs |->
                    IF q \in FinderFiles THEN [kind |-> "file", mtime |-> fm[q]]
                    ELSE IF q = <<"d", "e">> THEN [kind |-> "dir", mtime |-> em]
                    ELSE [kind |-> "dir", mtime |-> StartClock - minDirectoryAge - 1]]
    /\ clock = StartClock
    /\ fPc = "sleep"
    /\ eligibleTime = 0
    /\ toVisit = <<>>
    /\ eligibleFiles = {}
    /\ walkErr = FALSE
    /\ fileList = <<>>
    /\ emitted = <<>>
    /\ lastSweep = NoSweep
    /\ sweeps = 0

IdleFinder ==
    /\ fsys = <<>>
    /\ clock = 0
    /\ fPc = "idle"
    /\ eligibleTime = 0
    /\ toVisit = <<>>
    /\ eligibleFiles = {}
    /\ walkErr = FALSE
    /\ fileList = <<>>
    /\ emitted = <<>>
    /\ lastSweep = NoSweep
    /\ sweeps = 0

\* memoryless.Run calls the function of FindForever: findFiles starts, the
\* sweep before it becomes history.
SweepStart ==
    /\ fPc = "sleep"
    /\ sweeps < MaxSweeps
    /\ sweeps' = sweeps + 1
    /\ lastSweep' = IF sweeps = 0 THEN NoSweep
                    ELSE [done |-> TRUE, emitted |-> emitted, eligibleTime |-> eligibleTime,
                          err |-> walkErr]
    /\ eligibleTime' = clock - maxFileAge
    /\ toVisit' = <<directory>>
    /\ eligibleFiles' = {}
    /\ walkErr' = FALSE
    /\ emitted' = <<>>
    /\ fPc' = "walk"
    /\ UNCHANGED <<nonFinderVars, fsys, clock, fileList>>

\* filepath.Walk visits a directory: it reads the names in it, then the
\* function of findFiles calls checkDirectory; an error of readDirNames,
\* os.Open, Readdirnames or os.Remove ends the walk.
WalkDirectory ==
    /\ fPc = "walk"
    /\ toVisit # <<>>
    /\ fsys[Head(toVisit)].kind = "dir"
    /\ LET path == Head(toVisit)
           names == SortNames(Children(fsys, path))
       IN \E ok \in BOOLEAN :
          IF ~ok
          THEN /\ walkErr' = TRUE
               /\ toVisit' = <<>>
               /\ UNCHANGED fsys
          ELSE /\ walkErr' = walkErr
               /\ toVisit' = names \o Tail(toVisit)
               /\ fsys' = IF OldEnough(path, fsys[path].mtime, clock) /\ names = <<>>
                          THEN RemoveDirectory(fsys, path, clock)
                          ELSE fsys
    /\ UNCHANGED <<nonFinderVars, clock, fPc, eligibleTime, eligibleFiles, fileList, emitted,
                   lastSweep, sweeps>>

\* filepath.Walk visits a file: findFiles records it when it is old enough.
WalkFile ==
    /\ fPc = "walk"
    /\ toVisit # <<>>
    /\ fsys[Head(toVisit)].kind = "file"
    /\ eligibleFiles' = IF Eligible(fsys[Head(toVisit)].mtime, eligibleTime)
                        THEN eligibleFiles \cup {Head(toVisit)} ELSE eligibleFiles
    /\ toVisit' = Tail(toVisit)
    /\ UNCHANGED <<nonFinderVars, fsys, clock, fPc, eligibleTime, walkErr, fileList, emitted,
                   lastSweep, sweeps>>

\* findFiles after the walk: the files found are sorted by mtime and returned.
WalkDone ==
    /\ fPc = "walk"
    /\ toVisit = <<>>
    /\ fileList' \in SortedByMtime(fsys, eligibleFiles)
    /\ fPc' = "emit"
    /\ UNCHANGED <<nonFinderVars, fsys, clock, eligibleTime, toVisit, eligibleFiles, walkErr,
                   emitted, lastSweep, sweeps>>

\* FindForever: notificationChannel <- file
SendFile ==
    /\ fPc = "emit"
    /\ fileList # <<>>
    /\ emitted' = Append(emitted, Head(fileList))
    /\ fileList' = Tail(fileList)
    /\ UNCHANGED <<nonFinderVars, fsys, clock, fPc, eligibleTime, toVisit, eligibleFiles, walkErr,
                   lastSweep, sweeps>>

\* FindForever: every file was sent, memoryless.Run waits for the next run.
SweepDone ==
    /\ fPc = "emit"
    /\ fileList = <<>>
    /\ fPc' = "sleep"
    /\ UNCHANGED <<nonFinderVars, fsys, clock, eligibleTime, toVisit, eligibleFiles, walkErr,
                   fileList, emitted, lastSweep, sweeps>>

\* memoryless.Run returns when ctx is canceled.
FinderReturns ==
    /\ fPc = "sleep"
    /\ fPc' = "returned"
    /\ UNCHANGED <<nonFinderVars, fsys, clock, eligibleTime, toVisit, eligibleFiles, walkErr,
                   fileList, emitted, lastSweep, sweeps>>

\* An hour passes.
TimePasses ==
    /\ fPc # "idle"
    /\ clock < StartClock + MaxHours
    /\ clock' = clock + 1
    /\ UNCHANGED <<nonFinderVars, fsys, fPc, eligibleTime, toVisit, eligibleFiles, walkErr,
                   fileList, emitted, lastSweep, sweeps>>

\* The experiment writes file f again between two sweeps.
WriteFile(f) ==
    /\ fPc = "sleep"
    /\ f \in DOMAIN fsys
    /\ fsys[f].kind = "file"
    /\ fsys[f].mtime < clock
    /\ fsys' = [fsys EXCEPT ![f].mtime = clock]
    /\ UNCHANGED <<nonFinderVars, clock, fPc, eligibleTime, toVisit, eligibleFiles, walkErr,
                   fileList, emitted, lastSweep, sweeps>>

NextFinder ==
    \/ SweepStart
    \/ WalkDirectory
    \/ WalkFile
    \/ WalkDone
    \/ SendFile
    \/ SweepDone
    \/ FinderReturns
    \/ TimePasses
    \/ \E f \in FinderFiles : WriteFile(f)

(***************************************************************************)
(* main and signalHandler (src/pusher.go).  Every datatype has its         *)
(* ListenForever loop; of a loop only what main depends on is kept: where  *)
(* it blocks and when it returns.                                          *)
(***************************************************************************)
\* flag datatype: the datatypes main sets up.
Datatypes == {"d1", "d2"}

\* context.WithCancel(parent): canceling a context cancels the contexts made from it.
Cancel(which) ==
    CASE which = "root" -> /\ ctxDone' = TRUE
                           /\ killDone' = TRUE
                           /\ termDone' = TRUE
      [] which = "kill" -> /\ killDone' = TRUE
                           /\ termDone' = TRUE
                           /\ UNCHANGED ctxDone
      [] which = "term" -> /\ termDone' = TRUE
                           /\ UNCHANGED <<ctxDone, killDone>>

InitMain ==
    /\ mPc = "start"
    /\ dryRun \in BOOLEAN
    /\ ctxDone = FALSE
    /\ killDone = FALSE
    /\ termDone = FALSE
    /\ hPc = "select"
    /\ signalSent = FALSE
    /\ graceFired = FALSE
    /\ wg = 0
    /\ loopPc = [d \in Datatypes |-> "none"]
    /\ cancelCalls = <<>>

IdleMain ==
    /\ mPc = "idle"
    /\ dryRun = FALSE
    /\ ctxDone = FALSE
    /\ killDone = FALSE
    /\ termDone = FALSE
    /\ hPc = "idle"
    /\ signalSent = FALSE
    /\ graceFired = FALSE
    /\ wg = 0
    /\ loopPc = [d \in Datatypes |-> "none"]
    /\ cancelCalls = <<>>

\* main: if *dryRun { cancelCtx() } else { defer cancelCtx() }
MainDryRun ==
    /\ mPc = "start"
    /\ mPc' = "spawn"
    /\ IF dryRun THEN Cancel("root") ELSE UNCHANGED <<ctxDone, killDone, termDone>>
    /\ UNCHANGED <<nonMainVars, dryRun, hPc, signalSent, graceFired, wg, loopPc, cancelCalls>>

\* main, one round of the loop over the datatypes: wg.Add(1) and
\* go func() { tc.ListenForever(termContext, killContext); wg.Done() }()
StartLoop(d) ==
    /\ mPc = "spawn"
    /\ loopPc[d] = "none"
    /\ wg' = wg + 1
    /\ loopPc' = [loopPc EXCEPT ![d] = "select"]
    /\ UNCHANGED <<nonMainVars, mPc, dryRun, ctxDone, killDone, termDone, hPc, signalSent,
                   graceFired, cancelCalls>>

\* main reaches wg.Wait().
MainWaits ==
    /\ mPc = "spawn"
    /\ \A d \in Datatypes : loopPc[d] # "none"
    /\ mPc' = "wait"
    /\ UNCHANGED <<nonMainVars, dryRun, ctxDone, killDone, termDone, hPc, signalSent, graceFired,
                   wg, loopPc, cancelCalls>>

\* main that does not wait for the loops.
MainReturnsAtOnce ==
    /\ mPc = "wait"
    /\ mPc' = "returned"
    /\ Cancel("root")
    /\ UNCHANGED <<nonMainVars, dryRun, hPc, signalSent, graceFired, wg, loopPc, cancelCalls>>

\* wg.Wait() returns and main with it; the deferred cancelCtx, termCancel
\* and killCancel run.
MainReturns ==
    /\ mPc = "wait"
    /\ wg = 0
    /\ mPc' = "returned"
    /\ Cancel("root")
    /\ UNCHANGED <<nonMainVars, dryRun, hPc, signalSent, graceFired, wg, loopPc, cancelCalls>>

\* The process receives SIGTERM.
SendSignal ==
    /\ mPc \notin {"idle", "returned"}
    /\ ~signalSent
    /\ signalSent' = TRUE
    /\ UNCHANGED <<nonMainVars, mPc, dryRun, ctxDone, killDone, termDone, hPc, graceFired, wg,
                   loopPc, cancelCalls>>

\* Somebody else calls cancelCtx (it is a variable of the package).
ExternalCancel ==
    /\ mPc \notin {"idle", "returned"}
    /\ ~ctxDone
    /\ Cancel("root")
    /\ UNCHANGED <<nonMainVars, mPc, dryRun, hPc, signalSent, graceFired, wg, loopPc, cancelCalls>>

\* signalHandler, first select: a signal or ctx.Done(); then the timer is started.
HandlerWakes ==
    /\ hPc = "select"
    /\ signalSent \/ ctxDone
    /\ hPc' = "term"
    /\ UNCHANGED <<nonMainVars, mPc, dryRun, ctxDone, killDone, termDone, signalSent, graceFired,
                   wg, loopPc, cancelCalls>>

\* signalHandler: termCancel()
HandlerCancelsTerm ==
    /\ hPc = "term"
    /\ Cancel("term")
    /\ cancelCalls' = Append(cancelCalls, "term")
    /\ hPc' = "sleep"
    /\ UNCHANGED <<nonMainVars, mPc, dryRun, signalSent, graceFired, wg, loopPc>>

\* The timer of signalHandler fires after waitTime.
GraceTimerFires ==
    /\ hPc \in {"term", "sleep"}
    /\ ~graceFired
    /\ graceFired' = TRUE
    /\ UNCHANGED <<nonMainVars, mPc, dryRun, ctxDone, killDone, termDone, hPc, signalSent, wg,
                   loopPc, cancelCalls>>

\* A signalHandler that does not sleep before it goes on.
HandlerSleepsNot ==
    /\ hPc = "sleep"
    /\ hPc' = "kill"
    /\ UNCHANGED <<nonMainVars, mPc, dryRun, ctxDone, killDone, termDone, signalSent, graceFired,
                   wg, loopPc, cancelCalls>>

\* signalHandler, second select: timer.C or ctx.Done()
HandlerSleptEnough ==
    /\ hPc = "sleep"
    /\ graceFired \/ ctxDone
    /\ hPc' = "kill"
    /\ UNCHANGED <<nonMainVars, mPc, dryRun, ctxDone, killDone, termDone, signalSent, graceFired,
                   wg, loopPc, cancelCalls>>

\* signalHandler: killCancel()
HandlerCancelsKill ==
    /\ hPc = "kill"
    /\ Cancel("kill")
    /\ cancelCalls' = Append(cancelCalls, "kill")
    /\ hPc' = "root"
    /\ UNCHANGED <<nonMainVars, mPc, dryRun, signalSent, graceFired, wg, loopPc>>

\* signalHandler: cancelCtx()
HandlerCancelsRoot ==
    /\ hPc = "root"
    /\ Cancel("root")
    /\ cancelCalls' = Append(cancelCalls, "root")
    /\ hPc' = "done"
    /\ UNCHANGED <<nonMainVars, mPc, dryRun, signalSent, graceFired, wg, loopPc>>

\* ListenForever takes a file or a timeout that makes it upload a tarfile.
LoopUploads(d) ==
    /\ loopPc[d] = "select"
    /\ loopPc' = [loopPc EXCEPT ![d] = "upload"]
    /\ UNCHANGED <<nonMainVars, mPc, dryRun, ctxDone, killDone, termDone, hPc, signalSent,
                   graceFired, wg, cancelCalls>>

\* case <-termCtx.Done(): t.uploadAll()
LoopSelectsTerm(d) ==
    /\ loopPc[d] = "select"
    /\ termDone
    /\ loopPc' = [loopPc EXCEPT ![d] = "uploadAll"]
    /\ UNCHANGED <<nonMainVars, mPc, dryRun, ctxDone, killDone, termDone, hPc, signalSent,
                   graceFired, wg, cancelCalls>>

\* The upload the loop waits for succeeds: uploadAndDelete or uploadAll returns.
LoopUploadDone(d) ==
    /\ loopPc[d] \in {"upload", "uploadAll"}
    /\ loopPc' = [loopPc EXCEPT ![d] = "select"]
    /\ UNCHANGED <<nonMainVars, mPc, dryRun, ctxDone, killDone, termDone, hPc, signalSent,
                   graceFired, wg, cancelCalls>>

\* case <-killCtx.Done(): t.uploadAll()
LoopSelectsKill(d) ==
    /\ loopPc[d] = "select"
    /\ killDone
    /\ loopPc' = [loopPc EXCEPT ![d] = "lastUploadAll"]
    /\ UNCHANGED <<nonMainVars, mPc, dryRun, ctxDone, killDone, termDone, hPc, signalSent,
                   graceFired, wg, cancelCalls>>

\* The last uploadAll returns, ListenForever returns, wg.Done()
LoopReturns(d) ==
    /\ loopPc[d] = "lastUploadAll"
    /\ loopPc' = [loopPc EXCEPT ![d] = "returned"]
    /\ wg' = wg - 1
    /\ UNCHANGED <<nonMainVars, mPc, dryRun, ctxDone, killDone, termDone, hPc, signalSent,
                   graceFired, cancelCalls>>

NextMain ==
    \/ MainDryRun
    \/ \E d \in Datatypes : StartLoop(d)
    \/ MainWaits
    \/ MainReturns
    \/ SendSignal
    \/ ExternalCancel
    \/ HandlerWakes
    \/ HandlerCancelsTerm
    \/ GraceTimerFires
    \/ HandlerSleptEnough
    \/ HandlerCancelsKill
    \/ HandlerCancelsRoot
    \/ \E d \in Datatypes : LoopUploads(d)
    \/ \E d \in Datatypes : LoopSelectsTerm(d)
    \/ \E d \in Datatypes : LoopUploadDone(d)
    \/ \E d \in Datatypes : LoopSelectsKill(d)
    \/ \E d \in Datatypes : LoopReturns(d)

(***************************************************************************)
(* uploader.Upload (src/uploader/uploader.go): one call, with a writer     *)
(* that takes any part of what it is given and may return an error.        *)
(***************************************************************************)
\* The values of a byte.
Bytes == {0, 1}

\* The byte buffers Upload is called with.
Buffers == UNION { [1 .. len -> Bytes] : len \in 0 .. MaxLen }

\* Upload that hands the whole buffer to every Write.
WholeBuffer(buf, k) == buf

\* contents[n:]
From(buf, k) == SubSeq(buf, k + 1, Len(buf))

InitUpload ==
    /\ upPc = "write"
    /\ upContents \in Buffers
    /\ upN = 0
    /\ upErr = FALSE
    /\ upWritten = <<>>
    /\ upWrites = 0
    /\ upWriteFailed = FALSE
    /\ upClosed = FALSE
    /\ upResult = "none"

IdleUpload ==
    /\ upPc = "idle"
    /\ upContents = <<>>
    /\ upN = 0
    /\ upErr = FALSE
    /\ upWritten = <<>>
    /\ upWrites = 0
    /\ upWriteFailed = FALSE
    /\ upClosed = FALSE
    /\ upResult = "none"

\* n, err := writer.Write(contents) and newWrite, err = writer.Write(contents[n:]);
\* n += newWrite: the writer takes the first taken bytes of p, with or
\* without an error.
WriterWrite ==
    /\ upPc = "write"
    /\ upWrites < MaxWrites
    /\ LET p == From(upContents, upN)
       IN \E taken \in 0 .. Len(p), failed \in BOOLEAN :
             /\ upWritten' = upWritten \o SubSeq(p, 1, taken)
             /\ upN' = upN + taken
             /\ upErr' = failed
             /\ upWriteFailed' = (upWriteFailed \/ failed)
    /\ upWrites' = upWrites + 1
    /\ upPc' = "loop"
    /\ UNCHANGED <<nonUploadVars, upContents, upClosed, upResult>>

\* for n != len(contents) || err != nil: an error is returned, a short
\* write is followed by another Write.
UploadLoop ==
    /\ upPc = "loop"
    /\ IF upN # Len(upContents) \/ upErr
       THEN IF upErr
            THEN /\ upPc' = "returned"
                 /\ upResult' = "error"
            ELSE /\ upPc' = "write"
                 /\ UNCHANGED upResult
       ELSE /\ upPc' = "close"
            /\ UNCHANGED upResult
    /\ UNCHANGED <<nonUploadVars, upContents, upN, upErr, upWritten, upWrites, upWriteFailed,
                   upClosed>>

\* return writer.Close()
WriterClose ==
    /\ upPc = "close"
    /\ upClosed' = TRUE
    /\ \E ok \in BOOLEAN : upResult' = IF ok THEN "nil" ELSE "error"
    /\ upPc' = "returned"
    /\ UNCHANGED <<nonUploadVars, upContents, upN, upErr, upWritten, upWrites, upWriteFailed>>

NextUpload ==
    \/ WriterWrite
    \/ UploadLoop
    \/ WriterClose

(***************************************************************************)
(* One Tarfile with what its archive holds (src/unnamed/part_002): calls   *)
(* of Add on files whose contents change on disk, then UploadAndDelete.    *)
(* A file on disk is in one of three versions: two of the same length and  *)
(* one that is longer.                                                     *)
(***************************************************************************)
Versions == {1, 2, 3}

\* The bytes of a file in version v.
Data(v) == CASE v = 1 -> <<0>> [] v = 2 -> <<0, 1>> [] OTHER -> <<1>>

\* The mtime of a file in version v.
ModTime(v) == 10 * v

\* A header that does not carry the mtime of the file.
HeaderWithoutModTime(name, v) == [Name |-> name, Size |-> Len(Data(v)), ModTime |-> 0]

\* tarfile.Add: header := &tar.Header{Name, Mode, Size, ModTime, PAXRecords}
\* from the fstat of a file in version v.
Header(name, v) == [Name |-> name, Size |-> Len(Data(v)), ModTime |-> ModTime(v)]

InitTarfile ==
    /\ tPc = "open"
    /\ tDisk \in [Files -> Versions]
    /\ tTar = New
    /\ tArchive = <<>>
    /\ tUploaded = <<>>
    /\ tUploadCalls = 0
    /\ tAdds = 0
    /\ tAdmitted = EmptyMap
    /\ tChanged = {}

IdleTarfile ==
    /\ tPc = "idle"
    /\ tDisk = <<>>
    /\ tTar = New
    /\ tArchive = <<>>
    /\ tUploaded = <<>>
    /\ tUploadCalls = 0
    /\ tAdds = 0
    /\ tAdmitted = EmptyMap
    /\ tChanged = {}

\* tarfile.Add on the open file fname.  file.Stat() fails or reports the
\* version on disk; io.Copy(contents, file) fails or reads a version: the
\* one on disk, or another one when the file is written between the two
\* calls.  A header whose Size is not the number of bytes read makes
\* io.Copy(t.tarWriter, contents) or t.tarWriter.Flush() fail, and rtx.Must
\* ends the process.
TarfileAdd(fname) ==
    /\ tPc = "open"
    /\ tAdds < MaxAdds
    /\ tDisk[fname] # 0
    /\ tAdds' = tAdds + 1
    /\ \E skip \in BOOLEAN, statOK \in BOOLEAN, read \in {0} \cup Versions :
       LET name == Internal(fname, rootDirectory)
           readOK == read # 0
           outcome == AddOutcome(tTar, name, skip, statOK, readOK)
           header == Header(name, tDisk[fname])
       IN IF outcome # "added"
          THEN /\ tTar' = Add(tTar, name, fname, skip, statOK, readOK)
               /\ UNCHANGED <<tPc, tDisk, tArchive, tAdmitted>>
          ELSE /\ tDisk' = [tDisk EXCEPT ![fname] = read]
               /\ IF header.Size # Len(Data(read))
                  THEN /\ tPc' = "fatal"
                       /\ UNCHANGED <<tTar, tArchive, tAdmitted>>
                  ELSE /\ tTar' = Add(tTar, name, fname, skip, statOK, readOK)
                       /\ tArchive' = Append(tArchive, [header |-> header, data |-> Data(read)])
                       /\ tAdmitted' = Put(tAdmitted, fname, [stat |-> tDisk[fname], read |-> read])
                       /\ UNCHANGED tPc
    /\ UNCHANGED <<nonTarfileVars, tUploaded, tUploadCalls, tChanged>>

\* The experiment writes a file again that is a member of the tarfile: it
\* is in another version now.
ModifyFile(fname) ==
    /\ tPc = "open"
    /\ fname \in Range(tTar.members)
    /\ tDisk[fname] # 0
    /\ \E v \in Versions \ {tDisk[fname]} : tDisk' = [tDisk EXCEPT ![fname] = v]
    /\ tChanged' = tChanged \cup {fname}
    /\ UNCHANGED <<nonTarfileVars, tPc, tTar, tArchive, tUploaded, tUploadCalls, tAdds, tAdmitted>>

\* Something removes a file that is a member of the tarfile.
DeleteFile(fname) ==
    /\ tPc = "open"
    /\ fname \in Range(tTar.members)
    /\ tDisk[fname] # 0
    /\ tDisk' = [tDisk EXCEPT ![fname] = 0]
    /\ tChanged' = tChanged \cup {fname}
    /\ UNCHANGED <<nonTarfileVars, tPc, tTar, tArchive, tUploaded, tUploadCalls, tAdds, tAdmitted>>

\* tarfile.UploadAndDelete with an uploader that succeeds: the skipped
\* files are removed; a tarfile without members returns; otherwise the
\* buffer is uploaded and the members are removed.
TarfileUploadAndDelete ==
    /\ tPc = "open"
    /\ LET begun == UploadAndDeleteBegin(tTar)
           existing == { f \in Files : tDisk[f] # 0 }
           gone == removeFile(Range(tTar.skipped), existing, {}).gone
                       \cup (IF begun.state = "retry"
                             THEN removeFile(Range(tTar.members), existing, {}).gone ELSE {})
       IN /\ tDisk' = [f \in Files |-> IF f \in gone THEN 0 ELSE tDisk[f]]
          /\ IF begun.state = "retry"
             THEN /\ tTar' = UploadAndDeleteFinish(begun, existing, {})
                  /\ tUploaded' = tArchive
                  /\ tUploadCalls' = tUploadCalls + 1
             ELSE /\ tTar' = begun
                  /\ UNCHANGED <<tUploaded, tUploadCalls>>
    /\ tPc' = "done"
    /\ UNCHANGED <<nonTarfileVars, tArchive, tAdds, tAdmitted, tChanged>>

NextTarfile ==
    \/ \E f \in Files : TarfileAdd(f)
    \/ \E f \in Files : ModifyFile(f)
    \/ \E f \in Files : DeleteFile(f)
    \/ TarfileUploadAndDelete

(***************************************************************************)
(* The inbound channel of the TarCache and the cases of ListenForever that *)
(* receive from it or return (src/unnamed/part_008): the channel is        *)
(* buffered, its owner sends and closes, the loop receives.  The timeout   *)
(* and termCtx cases leave channel and loop as they are.                   *)
(***************************************************************************)
InitChannel ==
    /\ chPc = "select"
    /\ chBuffer = <<>>
    /\ chClosed = FALSE
    /\ chKilled = FALSE
    /\ chReturnedBy = ""
    /\ chSent = <<>>
    /\ chAdded = <<>>
    /\ chAddedClosed = 0

IdleChannel ==
    /\ chPc = "idle"
    /\ chBuffer = <<>>
    /\ chClosed = FALSE
    /\ chKilled = FALSE
    /\ chReturnedBy = ""
    /\ chSent = <<>>
    /\ chAdded = <<>>
    /\ chAddedClosed = 0

\* The owner of the channel sends a filename; the buffer (1000000) has room.
ChannelSend(f) ==
    /\ chPc # "idle"
    /\ ~chClosed
    /\ Len(chSent) < MaxSent
    /\ chBuffer' = Append(chBuffer, f)
    /\ chSent' = Append(chSent, f)
    /\ UNCHANGED <<nonChannelVars, chPc, chClosed, chKilled, chReturnedBy, chAdded, chAddedClosed>>

\* The owner of the channel closes it.
ChannelClose ==
    /\ chPc # "idle"
    /\ ~chClosed
    /\ chClosed' = TRUE
    /\ UNCHANGED <<nonChannelVars, chPc, chBuffer, chKilled, chReturnedBy, chSent, chAdded,
                   chAddedClosed>>

\* killCancel()
ChannelKill ==
    /\ chPc # "idle"
    /\ ~chKilled
    /\ chKilled' = TRUE
    /\ UNCHANGED <<nonChannelVars, chPc, chBuffer, chClosed, chReturnedBy, chSent, chAdded,
                   chAddedClosed>>

\* case dataFile, channelOpen := <-t.fileChannel with channelOpen:
\* t.add(dataFile).  A receive takes a buffered value, with channelOpen
\* true, whether or not the channel has been closed.
ChannelRecvFile ==
    /\ chPc = "select"
    /\ chBuffer # <<>>
    /\ chBuffer' = Tail(chBuffer)
    /\ chAdded' = Append(chAdded, Head(chBuffer))
    /\ chAddedClosed' = chAddedClosed + (IF chClosed THEN 1 ELSE 0)
    /\ UNCHANGED <<nonChannelVars, chPc, chClosed, chKilled, chReturnedBy, chSent>>

\* A receive that reports a closed channel while values are buffered.
ChannelRecvClosedAtOnce ==
    /\ chPc = "select"
    /\ chClosed
    /\ chPc' = "returned"
    /\ chReturnedBy' = "closed"
    /\ UNCHANGED <<nonChannelVars, chBuffer, chClosed, chKilled, chSent, chAdded, chAddedClosed>>

\* case dataFile, channelOpen := <-t.fileChannel with !channelOpen: return.
\* A receive reports a closed channel only when the channel is closed and
\* its buffer is empty.
ChannelRecvClosed ==
    /\ chPc = "select"
    /\ chClosed
    /\ chBuffer = <<>>
    /\ chPc' = "returned"
    /\ chReturnedBy' = "closed"
    /\ UNCHANGED <<nonChannelVars, chBuffer, chClosed, chKilled, chSent, chAdded, chAddedClosed>>

\* case <-killCtx.Done(): t.uploadAll(); return
ChannelSelectKill ==
    /\ chPc = "select"
    /\ chKilled
    /\ chPc' = "returned"
    /\ chReturnedBy' = "kill"
    /\ UNCHANGED <<nonChannelVars, chBuffer, chClosed, chKilled, chSent, chAdded, chAddedClosed>>

NextChannel ==
    \/ \E f \in Files : ChannelSend(f)
    \/ ChannelClose
    \/ ChannelKill
    \/ ChannelRecvFile
    \/ ChannelRecvClosed
    \/ ChannelSelectKill

(***************************************************************************)
(* The metadata of the tarfiles of several datatypes.  main hands the one  *)
(* metadata flag to the tar cache of every datatype (src/pusher.go);       *)
(* TarCache.add hands t.metadata.Get() to tarfile.New, which adds the      *)
(* MLAB.datatype record to that map and keeps it; tarfile.Add writes the   *)
(* map as the PAXRecords of every member header (src/unnamed/part_002).    *)
(* Maps are reference values in Go: md.heap holds the maps, and a tarfile  *)
(* holds the place of its map in md.heap.                                  *)
(***************************************************************************)
MaxTarfiles == 3    \* tarfile.New is called at most MaxTarfiles times

\* What the -metadata flags may have set (kv.pairs).
ConfiguredPairs ==
    { EmptyMap,
      [k \in {"MLAB.testkey"} |-> "testvalue"],
      [k \in {"MLAB.datatype"} |-> "testvalue"] }

\* A Get that returns the map of the flag itself.
GetShared(heap) == [heap |-> heap, ref |-> 1]

\* flagx.KeyValue.Get (github.com/m-lab/go, not part of src): the pairs in a
\* map of its own.  The tests build tar caches from the zero KeyValue and
\* tarfile.New assigns to the map it is given, so Get does not return the
\* nil map of the zero value.
Get(heap) == [heap |-> Append(heap, heap[1]), ref |-> Len(heap) + 1]

\* heap: the maps in memory, the first is the flag's pairs, the others are
\* Get()'s; tarfile: datatype -> which map of heap its tarfile has as
\* t.metadata, 0 for no tarfile; headers: the member headers written, with
\* the datatype of the tarfile; left: how many more tarfiles may be created.
InitMetadata ==
    md \in { [ heap |-> <<pairs>>, tarfile |-> [d \in Datatypes |-> 0], headers |-> {},
               left |-> MaxTarfiles ] : pairs \in ConfiguredPairs }

IdleMetadata == md = [left |-> 0]

\* TarCache.add of datatype d finds no tarfile for the subdir:
\* tarfile.New(subdir, t.datatype, t.fileRatio, t.metadata.Get())
MetadataNew(d) ==
    /\ md.left > 0
    /\ md.tarfile[d] = 0
    /\ LET g == Get(md.heap)
       IN  md' = [md EXCEPT !.heap = [g.heap EXCEPT ![g.ref] = Put(@, "MLAB.datatype", d)],
                            !.tarfile[d] = g.ref,
                            !.left = @ - 1]
    /\ UNCHANGED nonMetadataVars

\* tarfile.Add of a tarfile of datatype d writes a member header:
\* PAXRecords: t.metadata
MetadataAdd(d) ==
    /\ md.tarfile[d] # 0
    /\ md' = [md EXCEPT !.headers =
                  @ \cup {[datatype |-> d, PAXRecords |-> md.heap[md.tarfile[d]]]}]
    /\ UNCHANGED nonMetadataVars

\* TarCache.uploadAndDelete of datatype d: delete(t.currentTarfile, subdir)
MetadataUpload(d) ==
    /\ md.tarfile[d] # 0
    /\ md' = [md EXCEPT !.tarfile[d] = 0]
    /\ UNCHANGED nonMetadataVars

NextMetadata ==
    \/ \E d \in Datatypes : MetadataNew(d)
    \/ \E d \in Datatypes : MetadataAdd(d)
    \/ \E d \in Datatypes : MetadataUpload(d)

(***************************************************************************)
(* Filenames as strings (src/filename/filename.go) and the part of         *)
(* TarCache.add that names a file (src/unnamed/part_008).  A string is the *)
(* sequence of its characters; Split and Join convert between a string and *)
(* the sequence of its '/'-separated segments used above.                  *)
(***************************************************************************)
MaxRoot == 2        \* the root handed to tarcache.New has at most MaxRoot characters
MaxPath == 7        \* a system path over PathChars has at most MaxPath characters

PathChars == {"/", "a"}

Strings(n) == UNION { [1..k -> PathChars] : k \in 0..n }

\* strings.HasSuffix(s, "/")
HasSuffixSlash(s) == s # <<>> /\ s[Len(s)] = "/"

\* tarcache.New: the root directory is made to end with '/'
NormalizeRoot(root) == IF ~HasSuffixSlash(root) THEN root \o <<"/">> ELSE root

RECURSIVE Split(_)
\* strings.Split(s, "/"): the segments between the slashes, empty ones too
Split(s) ==
    IF \A i \in 1..Len(s) : s[i] # "/"
    THEN <<s>>
    ELSE LET i == CHOOSE j \in 1..Len(s) : s[j] = "/" /\ \A k \in 1..(j - 1) : s[k] # "/"
         IN  <<SubSeq(s, 1, i - 1)>> \o Split(SubSeq(s, i + 1, Len(s)))

RECURSIVE Join(_)
\* strings.Join(segs, "/")
Join(segs) ==
    IF segs = <<>> THEN <<>>
    ELSE IF Len(segs) = 1 THEN segs[1]
    ELSE segs[1] \o <<"/">> \o Join(Tail(segs))

\* A grouping key that is the whole directory of the name.
SubdirStringWholeDir(l) == Join(SubSeq(Split(l), 1, Len(Split(l)) - 1))

\* filename.Internal.Subdir on a string: split on '/', keep min(3, n-1), join
SubdirString(l) == Join(Subdir(Split(l)))

IsElement(e) == e # <<>> /\ e # <<".">>

RECURSIVE CleanElements(_, _, _)
\* path.Clean, its ".." rule: drop the element before, or the ".." itself
\* at the start of a rooted path
CleanElements(elems, out, rooted) ==
    IF elems = <<>> THEN out
    ELSE LET e == Head(elems) IN
         IF e # <<".", ".">>
         THEN CleanElements(Tail(elems), Append(out, e), rooted)
         ELSE IF out # <<>> /\ out[Len(out)] # <<".", ".">>
         THEN CleanElements(Tail(elems), SubSeq(out, 1, Len(out) - 1), rooted)
         ELSE IF rooted
         THEN CleanElements(Tail(elems), out, rooted)
         ELSE CleanElements(Tail(elems), Append(out, e), rooted)

\* path.Clean: no empty and no "." elements, ".." resolved, no trailing
\* slash, "." for the empty path
Clean(name) ==
    LET rooted == name # <<>> /\ name[1] = "/"
        out == Join(CleanElements(SelectSeq(Split(name), IsElement), <<>>, rooted))
        cleaned == IF rooted THEN <<"/">> \o out ELSE out
    IN  IF cleaned = <<>> THEN <<".">> ELSE cleaned

LastSlash(name) ==
    IF \E i \in 1..Len(name) : name[i] = "/"
    THEN CHOOSE i \in 1..Len(name) : name[i] = "/" /\ \A k \in (i + 1)..Len(name) : name[k] # "/"
    ELSE 0

\* path.Split: the directory with its final slash, and the file
SplitDir(name) == SubSeq(name, 1, LastSlash(name))

SplitFile(name) == SubSeq(name, LastSlash(name) + 1, Len(name))

Digit == {"0", "1", "2", "3", "4", "5", "6", "7", "8", "9"}

Letter ==
    {"a", "b", "c", "d", "e", "f", "g", "h", "i", "j", "k", "l", "m", "n", "o", "p", "q", "r",
     "s", "t", "u", "v", "w", "x", "y", "z", "A", "B", "C", "D", "E", "F", "G", "H", "I", "J",
     "K", "L", "M", "N", "O", "P", "Q", "R", "S", "T", "U", "V", "W", "X", "Y", "Z"}

\* the regular expression invalidChars matches a character outside this set
ValidChars == Letter \cup Digit \cup {"/", ":", ".", "_", "-"}

\* the regular expression recommendedFormat:
\* ^[a-zA-Z0-9_-]+/20[0-9][0-9]/[0-9]{2}/[0-9]{2}
RecommendedFormat(d) ==
    \E i \in 2..Len(d) :
        /\ d[i] = "/"
        /\ \A k \in 1..(i - 1) : d[k] \in Letter \cup Digit \cup {"_", "-"}
        /\ Len(d) >= i + 10
        /\ d[i + 1] = "2" /\ d[i + 2] = "0" /\ d[i + 3] \in Digit /\ d[i + 4] \in Digit
        /\ d[i + 5] = "/" /\ d[i + 6] \in Digit /\ d[i + 7] \in Digit
        /\ d[i + 8] = "/" /\ d[i + 9] \in Digit /\ d[i + 10] \in Digit

\* filename.Internal.Lint: "nil" for a normal name, else why it is strange
Lint(name) ==
    IF Clean(name) # name THEN "cleaned"
    ELSE IF SplitFile(name) # <<>> /\ SplitFile(name)[1] = "." THEN "hidden"
    ELSE IF \E i \in 1..(Len(name) - 1) : name[i] = "." /\ name[i + 1] = "." THEN "dots"
    ELSE IF \E i \in 1..Len(name) : name[i] \notin ValidChars THEN "chars"
    ELSE IF ~RecommendedFormat(SplitDir(name)) THEN "format"
    ELSE "nil"

\* The names of TestLint: the one it expects no warning for, and the ones
\* it expects a warning for.
GoodNames ==
    { <<"n", "d", "t", "/", "2", "0", "0", "9", "/", "0", "3", "/", "1", "3", "/", "f", "i", "l", "e", ".", "g", "z">> }

BadNames ==
    { <<"/", "g", "f", "d", "g", "f", "/", ".", ".", "/", "f", "s", "d", "f", "d", "s", "/", "d", "a", "t", "a", ".", "t", "x", "t">>,
      <<"f", "i", "l", "e", ".", "t", "x", "t", ";", " ", "r", "m", " ", "-", "R", "f", " ", "*">>,
      <<"d", "i", "r", "/", ".", "g", "z">>,
      <<"d", "i", "r", "/", ".", ".", ".", "/", "f", "i", "l", "e", ".", "g", "z">>,
      <<"d", "i", "r", "/", "o", "n", "l", "y", "_", "a", "_", "d", "i", "r", "/">>,
      <<"n", "d", "t", "/", "2", "0", "0", "9", "/", "0", "3", "/", "a", "b", "/", "f", "i", "l", "e", ".", "g", "z">> }

\* The names of TestSubdir.
SubdirNames ==
    { <<"2", "0", "0", "9", "/", "0", "1", "/", "0", "1", "/", "t", "e", "s", "/">>,
      <<"2", "0", "0", "9", "/", "0", "1", "/", "t", "e", "s", "t">>,
      <<"2", "0", "0", "9", "/", "t", "e", "s", "t">>,
      <<"t", "e", "s", "t">>,
      <<"2", "0", "0", "9", "/", "0", "1", "/", "0", "1", "/", "s", "u", "b", "d", "i", "r", "/", "t", "e", "s", "t">> }

Roots == Strings(MaxRoot)

\* The system paths handed to the loop: every short string, and the names
\* of TestLint and TestSubdir below every root.
SystemPaths ==
    Strings(MaxPath) \cup
    { NormalizeRoot(r) \o n : r \in Roots, n \in GoodNames \cup BadNames \cup SubdirNames }

\* pc: "new" | "select" | "added"; root: the rootDirectory handed to
\* tarcache.New; rootDirectory: t.rootDirectory; system: the system path
\* handed to the loop; internal: internalName of add; warning: what Lint()
\* returned, "nil" for none; openOK, addOK: os.Open returned no error, tf.Add
\* admitted the file; current: the keys of t.currentTarfile; members: the
\* members of the tarfiles, records of subdir and name; uploaded: the
\* members of the archives handed to Upload; strange, openErrors: the
\* counters pusher_strange_filenames_total, pusher_file_open_errors_total.
InitFilename ==
    fn \in { [ pc |-> "new", root |-> r, system |-> p, rootDirectory |-> <<>>,
               internal |-> <<>>, warning |-> "nil", openOK |-> FALSE, addOK |-> FALSE,
               current |-> {}, members |-> {}, uploaded |-> {}, strange |-> 0,
               openErrors |-> 0 ] : r \in Roots, p \in SystemPaths }

IdleFilename == fn = [pc |-> "idle"]

\* tarcache.New
FilenameNew ==
    /\ fn.pc = "new"
    /\ fn' = [fn EXCEPT !.rootDirectory = NormalizeRoot(fn.root), !.pc = "select"]
    /\ UNCHANGED nonFilenameVars

\* TarCache.add that returns at the lint warning, which the code does not
addReturnsOnWarning(openOK, addOK, over) ==
    LET internalName == Internal(fn.system, fn.rootDirectory)
        warning == Lint(internalName)
        subdir == SubdirString(internalName)
        member == [subdir |-> subdir, name |-> internalName]
        admitted == warning = "nil" /\ openOK /\ addOK
    IN  /\ fn.pc = "select"
        /\ fn' = [fn EXCEPT
                    !.pc = "added",
                    !.internal = internalName,
                    !.warning = warning,
                    !.strange = @ + (IF warning # "nil" THEN 1 ELSE 0),
                    !.openOK = openOK,
                    !.addOK = addOK,
                    !.openErrors = @ + (IF warning = "nil" /\ ~openOK THEN 1 ELSE 0),
                    !.current = IF warning = "nil" /\ openOK /\ ~(admitted /\ over)
                                THEN @ \cup {subdir} ELSE @,
                    !.members = IF admitted /\ ~over THEN @ \cup {member} ELSE @,
                    !.uploaded = IF admitted /\ over THEN @ \cup {member} ELSE @]
        /\ UNCHANGED nonFilenameVars

\* TarCache.add of fn.system: the internal name, the lint warning, os.Open,
\* the tarfile of the subdir, tf.Add, and the upload when the tarfile is
\* over the size threshold
add(openOK, addOK, over) ==
    LET internalName == Internal(fn.system, fn.rootDirectory)
        warning == Lint(internalName)
        subdir == SubdirString(internalName)
        member == [subdir |-> subdir, name |-> internalName]
        admitted == openOK /\ addOK
    IN  /\ fn.pc = "select"
        /\ fn' = [fn EXCEPT
                    !.pc = "added",
                    !.internal = internalName,
                    !.warning = warning,
                    !.strange = @ + (IF warning # "nil" THEN 1 ELSE 0),
                    !.openOK = openOK,
                    !.addOK = addOK,
                    !.openErrors = @ + (IF ~openOK THEN 1 ELSE 0),
                    !.current = IF openOK /\ ~(admitted /\ over) THEN @ \cup {subdir} ELSE @,
                    !.members = IF admitted /\ ~over THEN @ \cup {member} ELSE @,
                    !.uploaded = IF admitted /\ over THEN @ \cup {member} ELSE @]
        /\ UNCHANGED nonFilenameVars

NextFilename ==
    \/ FilenameNew
    \/ \E openOK, addOK, over \in BOOLEAN : add(openOK, addOK, over)

InitN == IdleCache /\ IdleRetry /\ IdleFinder /\ IdleMain /\ IdleUpload /\ IdleTarfile
         /\ IdleChannel /\ InitFilename /\ IdleMetadata

SpecFilename == InitN /\ [][NextFilename]_vars

InitD == IdleCache /\ IdleRetry /\ IdleFinder /\ IdleMain /\ IdleUpload /\ IdleTarfile
         /\ IdleChannel /\ IdleFilename /\ InitMetadata

SpecMetadata == InitD /\ [][NextMetadata]_vars

InitC == IdleCache /\ IdleRetry /\ IdleFinder /\ IdleMain /\ IdleUpload /\ IdleTarfile /\ InitChannel
    /\ IdleFilename /\ IdleMetadata

SpecChannel == InitC /\ [][NextChannel]_vars

InitU == IdleCache /\ IdleRetry /\ IdleFinder /\ IdleMain /\ InitUpload /\ IdleTarfile /\ IdleChannel
    /\ IdleFilename /\ IdleMetadata

SpecUpload == InitU /\ [][NextUpload]_vars

InitT == IdleCache /\ IdleRetry /\ IdleFinder /\ IdleMain /\ IdleUpload /\ InitTarfile /\ IdleChannel
    /\ IdleFilename /\ IdleMetadata

SpecTarfile == InitT /\ [][NextTarfile]_vars

InitM == IdleCache /\ IdleRetry /\ IdleFinder /\ InitMain /\ IdleUpload /\ IdleTarfile /\ IdleChannel
    /\ IdleFilename /\ IdleMetadata

SpecMain == InitM /\ [][NextMain]_vars

\* main and signalHandler go on when they can; an upload a loop waits for
\* succeeds in the end; select takes a case that is ready again and again.
MainFairness ==
    /\ WF_vars(MainDryRun)
    /\ WF_vars(MainWaits)
    /\ WF_vars(MainReturns)
    /\ WF_vars(HandlerWakes)
    /\ WF_vars(HandlerCancelsTerm)
    /\ WF_vars(HandlerSleptEnough)
    /\ WF_vars(HandlerCancelsKill)
    /\ WF_vars(HandlerCancelsRoot)
    /\ \A d \in Datatypes :
          /\ WF_vars(StartLoop(d))
          /\ WF_vars(LoopUploadDone(d))
          /\ WF_vars(LoopReturns(d))
          /\ SF_vars(LoopSelectsKill(d))

LiveSpecMain == InitM /\ [][NextMain]_vars /\ MainFairness

Init == InitCache(MaxEmit, 0) /\ IdleRetry /\ IdleFinder /\ IdleMain /\ IdleUpload /\ IdleTarfile /\ IdleChannel
    /\ IdleFilename /\ IdleMetadata

Next == NextCache

Spec == Init /\ [][Next]_vars

InitR == IdleCache /\ InitRetry /\ IdleFinder /\ IdleMain /\ IdleUpload /\ IdleTarfile /\ IdleChannel
    /\ IdleFilename /\ IdleMetadata

SpecRetry == InitR /\ [][NextRetry]_vars

InitF == IdleCache /\ IdleRetry /\ InitFinder /\ IdleMain /\ IdleUpload /\ IdleTarfile /\ IdleChannel
    /\ IdleFilename /\ IdleMetadata

SpecFinder == InitF /\ [][NextFinder]_vars

(***************************************************************************)
(* The fairness the code's scheduling gives.  Go's select picks among its  *)
(* ready cases at random, so a case that is ready again and again is       *)
(* taken (strong fairness); a goroutine that can run does run (weak        *)
(* fairness); and every upload that is started succeeds in the end.        *)
(***************************************************************************)
Fairness ==
    /\ SF_vars(RecvFile)
    /\ SF_vars(RecvClosed)
    /\ WF_vars(FlushReturn)
    /\ WF_vars(UploadAllReturn)
    /\ \A s \in Subdirs : WF_vars(UploadSucceeds(s))

LiveInit == InitCache(MaxLiveEmit, 0) /\ IdleRetry /\ IdleFinder /\ IdleMain /\ IdleUpload /\ IdleTarfile /\ IdleChannel
    /\ IdleFilename /\ IdleMetadata

LiveSpec == LiveInit /\ [][Next]_vars /\ Fairness

\* memoryless.AfterFunc fires within its Max, and the select takes a
\* timeout that is offered again and again.
TimerFairness ==
    \A s \in Subdirs : WF_vars(TimerFires(s)) /\ SF_vars(RecvTimeout(s))

LiveTimerSpec == LiveInit /\ [][Next]_vars /\ Fairness /\ TimerFairness

\* A run in which the file system refuses some removals.
InitFaults == InitCache(MaxFaultEmit, MaxRemoveFails) /\ IdleRetry /\ IdleFinder /\ IdleMain /\ IdleUpload /\ IdleTarfile /\ IdleChannel
    /\ IdleFilename /\ IdleMetadata

SpecFaults == InitFaults /\ [][Next]_vars

(***************************************************************************)
(* Properties of the tarfile and of the tar cache, checked under Spec.     *)
(***************************************************************************)
Active == DOMAIN currentTarfile

Members(tf) == DOMAIN tf.members

\* The step is the loop receiving a filename from fileChannel.
ReceivesFile == pc = "select" /\ fileChannel # <<>> /\ fileChannel' = Tail(fileChannel)

ReceivedName == Internal(Head(fileChannel), rootDirectory)

ReceivedSubdir == Subdir(ReceivedName)

Occurrences(seq, x) == Cardinality({ i \in 1 .. Len(seq) : seq[i] = x })

\* C1: a member of a tarfile is handed to removeFile only after Upload
\* returned nil for that tarfile's archive; while upload attempts fail and
\* are retried nothing of it has been removed.
RemovesOnlyAfterUpload ==
    \A s \in Active :
        /\ currentTarfile[s].removed # {} => currentTarfile[s].uploaded
        /\ currentTarfile[s].state = "retry" => currentTarfile[s].removed = {}

\* C1 witness: after failed attempts an archive was uploaded and its two
\* members were removed from the disk.
MembersRemovedAfterRetriedUpload ==
    \E s \in Active :
        /\ uploadFails > 0
        /\ currentTarfile[s].uploaded
        /\ Cardinality(currentTarfile[s].removed) = 2
        /\ currentTarfile[s].removed \cap disk = {}

\* C4: receiving a name that is already a member of its tarfile changes
\* nothing of the tarfile (contents, Size, members, skipped, timer, calls of
\* the timer factory), counts one duplicate, and the name stays a member of
\* the archive exactly once.
DuplicateAddChangesNothing ==
    [][ ( /\ ReceivesFile
          /\ Head(fileChannel) \in disk
          /\ ReceivedSubdir \in Active
          /\ ReceivedName \in Members(currentTarfile[ReceivedSubdir]) )
        => ( /\ currentTarfile' = currentTarfile
             /\ duplicates'.add_file = duplicates.add_file + 1
             /\ duplicates'.skip_file = duplicates.skip_file
             /\ Occurrences(currentTarfile'[ReceivedSubdir].contents, ReceivedName) = 1
             /\ pc' = "select" ) ]_vars

\* C4 witness: a duplicate was counted and the tarfile holds its one member,
\* with the timer factory called once.
DuplicateWasCounted ==
    \E s \in Active :
        /\ duplicates.add_file = 1
        /\ Len(currentTarfile[s].contents) = 1
        /\ Cardinality(Members(currentTarfile[s])) = 1
        /\ currentTarfile[s].timerCalls = 1

\* C5: in every tarfile the admitted and the skipped names are disjoint, and
\* the archive holds each admitted name exactly once and nothing else.
AdmittedAndSkippedDisjoint ==
    \A s \in Active :
        LET tf == currentTarfile[s] IN
        /\ Members(tf) \cap DOMAIN tf.skipped = {}
        /\ \A n \in Members(tf) : Occurrences(tf.contents, n) = 1
        /\ \A i \in 1 .. Len(tf.contents) : tf.contents[i] \in Members(tf)

\* C5 witness: a tarfile with a member and a skipped name, after a skipped
\* name was presented again.
TarfileWithMemberAndSkipped ==
    \E s \in Active :
        /\ Members(currentTarfile[s]) # {}
        /\ DOMAIN currentTarfile[s].skipped # {}
        /\ duplicates.skip_file > 0

\* C6: a tarfile of the map has a timer iff it has a member, and the timer
\* factory was called once for a tarfile with members and never for one
\* without.
TimerIffMembers ==
    \A s \in Active :
        LET tf == currentTarfile[s] IN
        /\ (tf.timeout # "nil") <=> (Members(tf) # {})
        /\ tf.timerCalls = IF Members(tf) = {} THEN 0 ELSE 1

\* C6 witness: one tarfile with two members and one timer call beside a
\* tarfile that only skipped a file and has no timer.
TwoMembersOneTimer ==
    \E s \in Active, t \in Active :
        /\ Cardinality(Members(currentTarfile[s])) = 2
        /\ currentTarfile[s].timerCalls = 1
        /\ Members(currentTarfile[t]) = {}
        /\ DOMAIN currentTarfile[t].skipped # {}
        /\ currentTarfile[t].timeout = "nil"

\* C7: while the loop waits at its select every tarfile of the map is open
\* and at most sizeThreshold big; an add that leaves its tarfile bigger
\* starts its upload, one that leaves it at or below the threshold starts
\* none; and the loop selects again only after the archive was uploaded, its
\* members removed and the tarfile dropped from the map.
SizeThresholdFlush ==
    /\ [](pc = "select" =>
            \A s \in Active : /\ Size(currentTarfile[s]) <= sizeThreshold
                              /\ currentTarfile[s].state = "open")
    /\ [][ (ReceivesFile /\ ReceivedSubdir \in DOMAIN currentTarfile') =>
             LET tf == currentTarfile'[ReceivedSubdir] IN
             IF Size(tf) > sizeThreshold
             THEN pc' = "flush" /\ flushSubdir' = ReceivedSubdir /\ tf.state = "retry"
             ELSE pc' = "select" /\ tf.state = "open" /\ uploadFails' = uploadFails ]_vars
    /\ [][ (pc = "flush" /\ pc' # "flush") =>
             /\ pc' = "select"
             /\ currentTarfile[flushSubdir].uploaded
             /\ currentTarfile[flushSubdir].removed = Range(currentTarfile[flushSubdir].members)
             /\ flushSubdir \notin DOMAIN currentTarfile' ]_vars

\* C7 witness: a size-triggered flush of a two-member tarfile has uploaded
\* and removed its members, and the loop has not selected again.
SizeFlushCompleted ==
    /\ pc = "flush"
    /\ Size(currentTarfile[flushSubdir]) > sizeThreshold
    /\ currentTarfile[flushSubdir].timeout = "stopped"
    /\ currentTarfile[flushSubdir].state = "done"
    /\ Cardinality(currentTarfile[flushSubdir].removed) = 2

\* C8: selecting the canceled termCtx puts every active tarfile under
\* UploadAndDelete; the loop goes on only when all of them returned (every
\* archive with members uploaded), with an empty map, and it goes back to
\* its select instead of returning.
TermFlushesAllThenContinues ==
    /\ [](pc = "uploadAllTerm" =>
            \A s \in Active : currentTarfile[s].state \in {"retry", "done"})
    /\ [][ (pc = "select" /\ pc' = "uploadAllTerm") => DOMAIN currentTarfile' = Active ]_vars
    /\ [][ (pc = "uploadAllTerm" /\ pc' # "uploadAllTerm") =>
             /\ \A s \in Active :
                    /\ currentTarfile[s].state = "done"
                    /\ Members(currentTarfile[s]) # {} => currentTarfile[s].uploaded
             /\ currentTarfile' = EmptyMap
             /\ pc' = "select"
             /\ returnedBy' = "" ]_vars

\* C8 witness: in the emergency flush of termCtx two uploads are in flight
\* at the same time.
TwoEmergencyUploadsInFlight ==
    /\ pc = "uploadAllTerm"
    /\ Cardinality({ s \in Active : currentTarfile[s].state = "retry" }) = 2

\* C9: ListenForever returns on cancellation only from the kill case, when
\* every tarfile that was active has returned from UploadAndDelete (every
\* archive with members uploaded), and the map is empty at the return.
KillFlushesAllThenReturns ==
    /\ [](returnedBy = "kill" => (pc = "returned" /\ currentTarfile = EmptyMap))
    /\ [][ (pc = "select" /\ pc' = "uploadAllKill") => DOMAIN currentTarfile' = Active ]_vars
    /\ [][ (returnedBy = "" /\ returnedBy' = "kill") =>
             /\ pc = "uploadAllKill"
             /\ \A s \in Active :
                    /\ currentTarfile[s].state = "done"
                    /\ Members(currentTarfile[s]) # {} => currentTarfile[s].uploaded ]_vars

\* C9 witness: the emergency flush of killCtx has uploaded two archives,
\* one of them after a failed attempt, and is about to return.
KillFlushDone ==
    /\ pc = "uploadAllKill"
    /\ uploadFails > 0
    /\ Cardinality({ s \in Active : currentTarfile[s].uploaded }) = 2
    /\ \A s \in Active : currentTarfile[s].state = "done"

\* C10 (under LiveSpec): once the channel is closed ListenForever returns.
ClosedChannelEndsLoop == chanClosed ~> (pc = "returned")

\* C10 witness: ListenForever returned because the channel was closed, with
\* neither context canceled.
ReturnedOnCloseWithoutCancel ==
    /\ pc = "returned"
    /\ returnedBy = "closed"
    /\ ~termCanceled
    /\ ~killCanceled

\* C11 (under LiveTimerSpec): a file admitted to a tarfile becomes a member
\* of an uploaded archive, unless ListenForever returns first: if nothing
\* else flushes the tarfile its timer fires, the loop receives the timeout
\* and flushes the tarfile of that subdir.
AdmittedIsUploaded ==
    \A f \in Files :
        (\E s \in Active : f \in Range(currentTarfile[s].members))
            ~> (f \in committed \/ pc = "returned")

\* C11 witness: the archive of a tarfile that was flushed by its timeout
\* (its timer fired, its size is within the threshold) has been uploaded.
AgeFlushUploaded ==
    /\ pc = "flush"
    /\ currentTarfile[flushSubdir].timeout = "fired"
    /\ Size(currentTarfile[flushSubdir]) <= sizeThreshold
    /\ currentTarfile[flushSubdir].uploaded
    /\ Range(currentTarfile[flushSubdir].members) \subseteq committed

\* C12 (under SpecFaults): when UploadAndDelete has returned for a tarfile
\* with members its archive was uploaded and every member is gone from the
\* disk or is still there with a remove error counted for it; the counter
\* grows by one for every member whose removal failed.
EveryMemberRemovedOrCounted ==
    /\ [](\A s \in Active :
            LET tf == currentTarfile[s] IN
            (tf.state = "done" /\ Members(tf) # {}) =>
                /\ tf.uploaded
                /\ tf.removed = Range(tf.members)
                /\ \A f \in Range(tf.members) : f \notin disk \/ f \in tf.removeErrs)
    /\ [][ \A s \in Active :
             (currentTarfile[s].state = "retry" /\ s \in DOMAIN currentTarfile'
                  /\ currentTarfile'[s].state = "done") =>
                 metrics'.pusherFileRemoveErrors.add_file =
                     metrics.pusherFileRemoveErrors.add_file
                         + Cardinality(currentTarfile'[s].removeErrs) ]_vars

\* C12 witness: after a failed upload attempt the archive of a two-member
\* tarfile was uploaded; the removal of one member was refused and counted
\* and the other member was removed.
OneMemberRefusedOtherRemoved ==
    \E s \in Active :
        LET tf == currentTarfile[s] IN
        /\ tf.state = "done"
        /\ uploadFails > 0
        /\ Cardinality(Range(tf.members)) = 2
        /\ Cardinality(Range(tf.members) \cap disk) = 1
        /\ tf.removeErrs = Range(tf.members) \cap disk
        /\ metrics.pusherFileRemoveErrors.add_file = 1

\* The outcomes of the reception of a filename by the loop.
CountsOpenError == metrics'.pusherFileOpenErrors = metrics.pusherFileOpenErrors + 1

CountsReadError == metrics'.pusherFileReadErrors = metrics.pusherFileReadErrors + 1

CountsDuplicate ==
    duplicates'.add_file + duplicates'.skip_file = duplicates.add_file + duplicates.skip_file + 1

TarfileBefore == IF ReceivedSubdir \in Active THEN currentTarfile[ReceivedSubdir] ELSE New

TarfileAfter ==
    IF ReceivedSubdir \in DOMAIN currentTarfile' THEN currentTarfile'[ReceivedSubdir] ELSE New

BecomesMember == ReceivedName \in Members(TarfileAfter) \ Members(TarfileBefore)

BecomesSkipped == ReceivedName \in DOMAIN TarfileAfter.skipped \ DOMAIN TarfileBefore.skipped

MembersInReceptionOrder ==
    /\ [][ (ReceivesFile /\ BecomesMember) =>
             TarfileAfter.contents = Append(TarfileBefore.contents, ReceivedName) ]_vars
    /\ [][ \A s \in Active \cap DOMAIN currentTarfile' :
             IsPrefix(currentTarfile[s].contents, currentTarfile'[s].contents) ]_vars

\* C14 witness: f2 was received before f1 and the uploaded archive of
\* subdir a holds f2 before f1.
SecondNameFirstInArchive ==
    \E s \in Active :
        /\ currentTarfile[s].uploaded
        /\ currentTarfile[s].contents = << <<"a", "f2">>, <<"a", "f1">> >>


\* ---- finder ----

\* The files of the tree that are older than the age the sweep asked for.
AgedFiles == { q \in DOMAIN fsys : fsys[q].kind = "file" /\ fsys[q].mtime < eligibleTime }

\* What the sweep sends in all: what it sent and what it has still to send.
SweepOutput == emitted \o fileList

TwoSweepsOfAgedFiles ==
    /\ fPc = "emit"
    /\ fileList = <<>>
    /\ lastSweep.done
    /\ ~walkErr
    /\ ~lastSweep.err
    /\ \A q \in DOMAIN fsys : fsys[q].kind = "file" => fsys[q].mtime < lastSweep.eligibleTime

\* C16 as claimed: two sweeps over an unchanged directory of aged files
\* send the same paths in the same sequence, files of equal mtime included.
SweepsEmitSameSequence == TwoSweepsOfAgedFiles => emitted = lastSweep.emitted

\* C16, amended: two sweeps over an unchanged directory of aged files send
\* the same set of paths, each sweep in nondecreasing order of mtime, so
\* the two sequences agree except for the order among files of equal mtime.
SweepsEmitSameFilesByMtime ==
    TwoSweepsOfAgedFiles =>
        /\ Range(emitted) = Range(lastSweep.emitted)
        /\ Len(emitted) = Len(lastSweep.emitted)
        /\ \A i \in 1 .. Len(emitted) : fsys[emitted[i]].mtime = fsys[lastSweep.emitted[i]].mtime

\* C16 witness: the second sweep over three aged files has sent them all,
\* two files of equal mtime in the other order than the sweep before.
EqualMtimesSentInOtherOrder ==
    /\ TwoSweepsOfAgedFiles
    /\ Len(emitted) = 3
    /\ emitted # lastSweep.emitted
    /\ fsys[emitted[1]].mtime < fsys[emitted[3]].mtime

\* The walk visits the directory at the head of toVisit and no operation on
\* it fails.
VisitsDirectory ==
    /\ fPc = "walk"
    /\ toVisit # <<>>
    /\ fsys[Head(toVisit)].kind = "dir"
    /\ toVisit' # toVisit
    /\ walkErr' = walkErr

\* C17: the sweep removes a directory only if it is not the datatype root,
\* is empty and is not younger than 25 hours, and every empty directory
\* other than the datatype root that is older than 25 hours is removed
\* when the walk visits it.
RemovesOldEmptyDirectories ==
    [][ /\ \A q \in DOMAIN fsys : q \notin DOMAIN fsys' =>
              /\ fsys[q].kind = "dir"
              /\ q # directory
              /\ Children(fsys, q) = {}
              /\ fsys[q].mtime <= clock - minDirectoryAge
        /\ VisitsDirectory =>
              LET path == Head(toVisit)
              IN (/\ path # directory
                  /\ Children(fsys, path) = {}
                  /\ fsys[path].mtime < clock - minDirectoryAge) => path \notin DOMAIN fsys' ]_vars

\* ---- main and signalHandler ----

\* The cancel functions in the order signalHandler calls them.
CancelOrder == <<"term", "kill", "root">>

\* C18: signalHandler calls termCancel first, killCancel only after the
\* grace timer fired or the root context was canceled, and cancelCtx only
\* after killCancel, so that its calls come in the order term, kill, root;
\* in every state kill canceled implies term canceled, and root canceled
\* implies kill and term canceled.
SignalHandlerCancelsInOrder ==
    /\ Len(cancelCalls) <= Len(CancelOrder)
    /\ cancelCalls = SubSeq(CancelOrder, 1, Len(cancelCalls))
    /\ hPc = "root" => graceFired \/ ctxDone
    /\ Len(cancelCalls) >= 1 => termDone
    /\ Len(cancelCalls) >= 2 => killDone
    /\ Len(cancelCalls) = 3 => ctxDone
    /\ killDone => termDone
    /\ ctxDone => killDone /\ termDone

\* C18 witness: after a signal and the grace period signalHandler has
\* canceled term and kill, and the root context is not canceled yet.
KillCanceledAfterGraceBeforeRoot ==
    /\ signalSent
    /\ graceFired
    /\ cancelCalls = <<"term", "kill">>
    /\ killDone
    /\ ~ctxDone

\* C19: main returns only after the ListenForever loop of every datatype
\* has returned, and once the root context is canceled every loop returns
\* and main returns in the end (the uploads the loops wait for succeed).
MainWaitsForEveryLoop ==
    /\ [](mPc = "returned" => \A d \in Datatypes : loopPc[d] = "returned")
    /\ (ctxDone ~> (mPc = "returned" /\ \A d \in Datatypes : loopPc[d] = "returned"))

\* C19 witness: main has returned after a signal, both loops before it.
MainReturnedAfterSignal ==
    /\ mPc = "returned"
    /\ ~dryRun
    /\ cancelCalls = CancelOrder
    /\ \A d \in Datatypes : loopPc[d] = "returned"

\* ---- uploader.Upload ----

\* C20: Upload returns nil only if the bytes the writer took, over all its
\* Write calls, are the bytes of the buffer, in order, none left out and
\* none twice, and Close was called and succeeded; once a Write has
\* returned an error, Close is not called and Upload returns an error.
UploadWritesBufferOnce ==
    /\ upResult = "nil" => upWritten = upContents /\ upClosed /\ ~upWriteFailed
    /\ upWriteFailed => ~upClosed
    /\ upWriteFailed /\ upPc = "returned" => upResult = "error"
    /\ upClosed => upWritten = upContents

\* C20 witness: Upload returned nil after the writer took a buffer of three
\* bytes in more than one Write.
BufferTakenInParts ==
    /\ upResult = "nil"
    /\ Len(upContents) = 3
    /\ upWrites >= 2
\* ---------------------------------------------------------------------
\* C21: each member of an uploaded archive carries the name
\* InternalPath(f) and the size, the contents and the mtime that f had
\* when it was admitted (f not being written while Add stats and reads
\* it), whatever happened to f on disk between its admission and the
\* flush; and the archive holds one member per admitted file.
\* ---------------------------------------------------------------------
MemberOf(fname) ==
    { i \in 1..Len(tUploaded) : tUploaded[i].header.Name = Internal(fname, rootDirectory) }

ArchiveKeepsAdmittedFiles ==
    tUploadCalls > 0 =>
        /\ Len(tUploaded) = Cardinality(DOMAIN tAdmitted)
        /\ \A f \in DOMAIN tAdmitted :
              /\ Cardinality(MemberOf(f)) = 1
              /\ \A i \in MemberOf(f) :
                    /\ tUploaded[i].header.Size = Len(Data(tAdmitted[f].stat))
                    /\ tUploaded[i].header.ModTime = ModTime(tAdmitted[f].stat)
                    /\ tUploaded[i].data = Data(tAdmitted[f].read)
                    /\ tAdmitted[f].stat = tAdmitted[f].read =>
                          tUploaded[i] = [header |-> Header(Internal(f, rootDirectory),
                                                            tAdmitted[f].stat),
                                          data |-> Data(tAdmitted[f].stat)]

\* An archive was uploaded with two members: one whose file was written
\* again after its admission, one whose file was deleted after it.
ChangedFilesUploaded ==
    /\ tUploadCalls > 0
    /\ \E f, g \in tChanged \cap DOMAIN tAdmitted :
          /\ tAdmitted[f].stat = tAdmitted[f].read
          /\ tAdmitted[g].stat = tAdmitted[g].read
          /\ tTar.removeErrs = {g}
          /\ f \in tTar.removed

\* ---------------------------------------------------------------------
\* C22: Upload is never called for an archive without members: a tarfile
\* that is being uploaded or was uploaded has at least one member, and a
\* timeout received for a subdir without active tarfile changes neither
\* the tarfiles nor the disk and the loop goes on selecting.
\* ---------------------------------------------------------------------
UploadCalled(tf) == tf.state = "retry" \/ tf.uploaded

TimeoutReceived(s) == timeoutSenders'[s] < timeoutSenders[s]

EmptyFlushCallsNoUpload ==
    [][/\ \A s \in DOMAIN currentTarfile' :
             UploadCalled(currentTarfile'[s]) => DOMAIN currentTarfile'[s].members # {}
       /\ \A s \in Subdirs :
             TimeoutReceived(s) /\ s \notin DOMAIN currentTarfile =>
                 /\ currentTarfile' = currentTarfile
                 /\ disk' = disk
                 /\ pc' = "select"]_vars

\* An emergency upload went over a tarfile that holds a skipped file and no
\* member, and has returned from it without an Upload call.
EmptyTarfileFlushed ==
    /\ pc = "uploadAllTerm"
    /\ \E s \in DOMAIN currentTarfile :
          /\ DOMAIN currentTarfile[s].members = {}
          /\ DOMAIN currentTarfile[s].skipped # {}
          /\ currentTarfile[s].state = "done"
          /\ ~currentTarfile[s].uploaded

\* ---------------------------------------------------------------------
\* C23: a graceful shutdown triggers exactly one emergency upload cycle
\* before killCtx is canceled: once the uploadAll started by the termCtx
\* case has returned, the termCtx case starts no other one, so that the
\* tarfiles created afterwards stay in the map until killCtx is canceled
\* or their own size or age flush.
\* ---------------------------------------------------------------------
InTermCycle == pc = "uploadAllTerm"

OneEmergencyCycleBeforeKill ==
    [](InTermCycle => [](~InTermCycle => [](InTermCycle => killCanceled)))

\* ---------------------------------------------------------------------
\* C24: a timeout that is received for subdir s after the tarfile whose
\* timer sent it was flushed (by size or in an emergency upload) is a
\* no-op: it changes neither the tarfiles nor the disk, also when a fresh
\* tarfile, whose own timer has not fired, is active for s.
\* ---------------------------------------------------------------------
LateTimeout(s) ==
    /\ TimeoutReceived(s)
    /\ s \in DOMAIN currentTarfile => currentTarfile[s].timeout # "fired"

LateTimeoutIsNoOp ==
    [][\A s \in Subdirs :
          LateTimeout(s) =>
              /\ currentTarfile' = currentTarfile
              /\ disk' = disk
              /\ pc' = "select"]_vars

\* ---------------------------------------------------------------------
\* C25 as stated: when the channel is closed while it holds buffered
\* filenames, the loop returns as soon as the closed-channel case is
\* selected and the buffered filenames are not processed: no filename is
\* handed to t.add after the close.
\* ---------------------------------------------------------------------
BufferedNamesNotProcessed == chAddedClosed = 0

\* C25, amended: the closed-channel case is selected only when the buffer
\* of the closed channel is empty: a loop that returned by it has handed
\* every filename that was sent to t.add, in the order sent; a loop that
\* has not yet returned has handed on what is no longer buffered.
ClosedChannelIsDrainedFirst ==
    /\ chAdded \o chBuffer = chSent
    /\ chReturnedBy = "closed" => chBuffer = <<>> /\ chAdded = chSent

\* The channel was closed while it held two filenames; both were handed to
\* t.add afterwards, and then the loop returned by the closed-channel case.
BufferedNamesProcessedAfterClose ==
    /\ chReturnedBy = "closed"
    /\ chAddedClosed = 2
    /\ Len(chAdded) = 3

\* ---------------------------------------------------------------------
\* C26: every file in the skipped set of a tarfile is eventually deleted
\* from disk while the pipeline keeps running: in a run with no shutdown
\* (termCtx not canceled, the loop not returned) a skipped file is removed
\* at last, also when no file of its subdir is admitted.
\* ---------------------------------------------------------------------
Skipped(f) == \E s \in DOMAIN currentTarfile : f \in Range(currentTarfile[s].skipped)

SkippedFilesEventuallyDeleted ==
    \A f \in Files : Skipped(f) ~> (f \notin disk \/ termCanceled \/ pc = "returned")

\* ---------------------------------------------------------------------
\* C27 as stated (under Spec, where the file system refuses no removal): a
\* member that disappeared from the disk between its admission and the
\* removal after the upload is taken as removed: the step in which the
\* upload of a tarfile succeeds counts no remove error.
\* ---------------------------------------------------------------------
FinishesUpload(s) ==
    /\ currentTarfile[s].state = "retry"
    /\ s \in DOMAIN currentTarfile'
    /\ currentTarfile'[s].state = "done"

MissingMemberCountsNoError ==
    [][\A s \in Active :
          FinishesUpload(s) =>
              metrics'.pusherFileRemoveErrors.add_file =
                  metrics.pusherFileRemoveErrors.add_file]_vars

\* C27, amended: the upload of a tarfile succeeds also when members have
\* disappeared from the disk since their admission; the members still there
\* are removed, and for every missing member one remove error is counted
\* (condition add_file), nothing else.
MissingMemberCountsRemoveError ==
    [][\A s \in Active :
          FinishesUpload(s) =>
              LET files == Range(currentTarfile[s].members) IN
              /\ currentTarfile'[s].uploaded
              /\ files \subseteq committed'
              /\ disk' = disk \ files
              /\ currentTarfile'[s].removeErrs = files \ disk
              /\ metrics'.pusherFileRemoveErrors.add_file =
                     metrics.pusherFileRemoveErrors.add_file + Cardinality(files \ disk)
              /\ metrics'.pusherFileRemoveErrors.skip_file =
                     metrics.pusherFileRemoveErrors.skip_file
              /\ metrics'.pusherFileOpenErrors = metrics.pusherFileOpenErrors
              /\ metrics'.pusherFileReadErrors = metrics.pusherFileReadErrors]_vars

\* The archive of a tarfile with two members was uploaded; one member had
\* disappeared and one remove error is counted for it, the other one was
\* removed.
MissingMemberUploadedAndCounted ==
    \E s \in Active :
        LET tf == currentTarfile[s] IN
        /\ tf.state = "done"
        /\ tf.uploaded
        /\ Cardinality(Range(tf.members)) = 2
        /\ Cardinality(tf.removeErrs) = 1
        /\ Range(tf.members) \cap disk = {}
        /\ metrics.pusherFileRemoveErrors.add_file = 1

\* ---------------------------------------------------------------------
\* C28: a file that cannot be opened, stat-ed or read is dropped with an
\* error counted: the reception of a file that is not on disk counts an
\* open error and changes no tarfile; a reception that counts an open or
\* a read error leaves every active tarfile as it was (members, contents,
\* size, timer), leaves a tarfile it created for a new subdir empty and
\* without timer, sends no timeout, removes nothing, and the loop selects
\* again.
\* ---------------------------------------------------------------------
UnreadableFileIsDropped ==
    [][ReceivesFile =>
          /\ Head(fileChannel) \notin disk =>
                 CountsOpenError /\ currentTarfile' = currentTarfile
          /\ (CountsOpenError \/ CountsReadError) =>
                 /\ \A s \in Active :
                        s \in DOMAIN currentTarfile' /\ currentTarfile'[s] = currentTarfile[s]
                 /\ \A s \in DOMAIN currentTarfile' \ Active : currentTarfile'[s] = New
                 /\ timeoutSenders' = timeoutSenders
                 /\ disk' = disk
                 /\ pc' = "select"]_vars

\* One file could not be opened and one could not be read or stat-ed; the
\* tarfile of a file admitted before them still has its one member and its
\* running timer, and the loop is selecting.
UnreadableFilesDropped ==
    /\ pc = "select"
    /\ metrics.pusherFileOpenErrors = 1
    /\ metrics.pusherFileReadErrors = 1
    /\ \E s \in Active :
          /\ Cardinality(Members(currentTarfile[s])) = 1
          /\ Len(currentTarfile[s].contents) = 1
          /\ currentTarfile[s].timeout = "running"

\* ---------------------------------------------------------------------
\* C29: a file whose byte stream is longer or shorter than the size that
\* Stat reported is handled as a read error: the call of Add returns, the
\* file is no member and Size() is what it was.
\* ---------------------------------------------------------------------
AddReadsOtherLength ==
    /\ tAdds' = tAdds + 1
    /\ \E f \in Files :
          /\ tDisk[f] # 0
          /\ tDisk'[f] # 0
          /\ Len(Data(tDisk'[f])) # Len(Data(tDisk[f]))

SizeMismatchIsReadError ==
    [][AddReadsOtherLength =>
          /\ tPc' = "open"
          /\ DOMAIN tTar'.members = DOMAIN tTar.members
          /\ Size(tTar') = Size(tTar)]_vars

\* ---------------------------------------------------------------------
\* C30: over the calls of Add on a tarfile before UploadAndDelete, Size()
\* never decreases, and a call of Add that admits no member (duplicate,
\* sampled out, stat error, read error) leaves Size() as it was.
\* ---------------------------------------------------------------------
AddReturns == tAdds' = tAdds + 1 /\ tPc' = "open"

SizeNeverDecreases ==
    [][AddReturns =>
          /\ Size(tTar') >= Size(tTar)
          /\ DOMAIN tTar'.members = DOMAIN tTar.members => Size(tTar') = Size(tTar)]_vars

\* Add was called three times on the tarfile: it has one member and one
\* skipped file, one call admitted nothing and recorded nothing, and the
\* size is that of the archive with the one member.
OneAdmittedOfThreeAdds ==
    /\ tPc = "open"
    /\ tAdds = 3
    /\ Cardinality(DOMAIN tTar.members) = 1
    /\ Cardinality(DOMAIN tTar.skipped) = 1
    /\ Len(tArchive) = 1
    /\ \E f \in Range(tTar.members) : Size(tTar) = GzipLen(f)

\* ---------------------------------------------------------------------
\* C32 as stated: every call of f made by Retry, successful or failed,
\* increments the counter of retries by one: the counter is the number of
\* calls made.
\* ---------------------------------------------------------------------
EveryCallCountsAsRetry == pusherRetries = rCalls

\* C32, amended: every failed call of f increments the counter of retries
\* by one and the call that succeeds does not: the counter is the number of
\* failed calls, and when Retry has returned after k failures it is k, one
\* less than the k + 1 calls made.
EveryFailedCallCountsAsRetry ==
    /\ pusherRetries = rFailures
    /\ rPc = "returned" => pusherRetries = rCalls - 1

\* Retry returned after two failed calls and one good one; the counter of
\* retries is 2.
TwoRetriesCounted ==
    rPc = "returned" /\ rCalls = 3 /\ rFailures = 2 /\ pusherRetries = 2

\* ---------------------------------------------------------------------
\* C33: once the doubled delay has exceeded maxBackoff for the first time
\* (the counter of ceiling hits is above 0), the sleep after every later
\* failed call is a fresh draw from [maxBackoff/2, maxBackoff), never
\* maxBackoff itself, and every such call increments the counter of
\* ceiling hits.
\* ---------------------------------------------------------------------
CallFails == rPc = "call" /\ rFailures' = rFailures + 1

EverySleepAtCeilingIsDrawn ==
    [][(CallFails /\ pusherMaxRetries > 0) =>
          /\ rDrawn'
          /\ rSleep' >= maxBackoff \div 2
          /\ rSleep' < maxBackoff
          /\ pusherMaxRetries' = pusherMaxRetries + 1]_vars

\* ---------------------------------------------------------------------
\* C40: every call of f made by Retry is observed in the histogram with
\* success = "true" exactly when it returned no error and with
\* success = "false" exactly when it returned an error.
\* ---------------------------------------------------------------------
SuccessLabelTellsSuccess ==
    /\ retryTimes["true"] = rCalls - rFailures
    /\ retryTimes["false"] = rFailures

(***************************************************************************)
(* C35.  For an internal path of n segments, Subdir() is the first         *)
(* min(3, n-1) segments joined by '/': the empty string when the path has  *)
(* no '/', else the part of the path before its k-th '/', k the smaller of *)
(* 3 and the number of slashes.  The final segment is never in the key:    *)
(* the key ends before the last '/'.                                       *)
(***************************************************************************)
SlashesOf(l) == { i \in 1..Len(l) : l[i] = "/" }

KthSlash(l, k) == CHOOSE p \in SlashesOf(l) : Cardinality({ q \in SlashesOf(l) : q <= p }) = k

FirstSegments(l) ==
    LET k == Min(3, Cardinality(SlashesOf(l)))
    IN  IF k = 0 THEN <<>> ELSE SubSeq(l, 1, KthSlash(l, k) - 1)

SubdirIsFirstThreeSegments ==
    \A m \in fn.members \cup fn.uploaded :
        /\ m.subdir = FirstSegments(m.name)
        /\ SlashesOf(m.name) # {} => Len(m.subdir) < LastSlash(m.name)
        /\ SlashesOf(m.name) = {} => m.subdir = <<>>

\* A file four directories deep is admitted under its first three.
DeepFileGrouped ==
    \E m \in fn.members :
        /\ m.name = <<"2", "0", "0", "9", "/", "0", "1", "/", "0", "1", "/", "s", "u", "b", "d", "i", "r", "/", "t", "e", "s", "t">>
        /\ m.subdir = <<"2", "0", "0", "9", "/", "0", "1", "/", "0", "1">>
        /\ fn.rootDirectory = <<"/", "a", "/">>

(***************************************************************************)
(* C36.  After construction the root of the tar cache ends with '/', and   *)
(* the internal path of every admitted file is its system path with that   *)
(* root prefix removed: root and internal path together give back the      *)
(* system path, whatever system path was handed to the loop.               *)
(***************************************************************************)
InternalIsSystemPathWithoutRoot ==
    /\ fn.pc \in {"select", "added"} => HasSuffixSlash(fn.rootDirectory)
    /\ \A m \in fn.members \cup fn.uploaded :
           m.name = fn.internal /\ fn.rootDirectory \o fn.internal = fn.system

(***************************************************************************)
(* C34.  Linting never changes what is uploaded: whether the file is       *)
(* admitted, which tarfile holds it and what is handed to Upload depend    *)
(* on os.Open, tf.Add and the size only, the same for a name Lint() calls  *)
(* strange and for a normal one; the warning shows in the strange-filename *)
(* counter and nowhere else.                                               *)
(***************************************************************************)
LintOnlyCounts ==
    fn.pc = "added" =>
        LET member == [subdir |-> SubdirString(fn.internal), name |-> fn.internal]
        IN  /\ fn.members \cup fn.uploaded = IF fn.openOK /\ fn.addOK THEN {member} ELSE {}
            /\ fn.members = {} \/ fn.uploaded = {}
            /\ fn.current = IF fn.openOK /\ fn.uploaded = {} THEN {member.subdir} ELSE {}
            /\ fn.openErrors = IF fn.openOK THEN 0 ELSE 1
            /\ fn.strange = IF fn.warning # "nil" THEN 1 ELSE 0

\* A name with strange characters is counted, admitted and uploaded.
StrangeNameUploaded ==
    /\ fn.pc = "added"
    /\ fn.warning = "chars"
    /\ fn.strange = 1
    /\ fn.uploaded # {}

(***************************************************************************)
(* C31.  While an UploadAndDelete started by a size- or age-triggered      *)
(* flush is in progress, failed attempts and backoff sleeps included, the  *)
(* loop receives nothing: no filename leaves the inbound channel and no    *)
(* timeout is received, no file is admitted to or skipped by any tarfile   *)
(* of the cache, no second upload starts, and the filenames sent meanwhile *)
(* stay queued in the channel.                                             *)
(***************************************************************************)
FlushInProgress ==
    /\ pc \notin {"uploadAllTerm", "uploadAllKill"}
    /\ \E s \in DOMAIN currentTarfile : currentTarfile[s].state = "retry"

LoopBlockedDuringFlush ==
    [][FlushInProgress =>
        /\ IsPrefix(fileChannel, fileChannel')
        /\ \A s \in Subdirs : timeoutSenders'[s] >= timeoutSenders[s]
        /\ DOMAIN currentTarfile' = DOMAIN currentTarfile
        /\ \A s \in DOMAIN currentTarfile :
               /\ currentTarfile'[s].members = currentTarfile[s].members
               /\ currentTarfile'[s].skipped = currentTarfile[s].skipped
               /\ currentTarfile'[s].state = "retry" => currentTarfile[s].state = "retry"
        /\ pc' \notin {"uploadAllTerm", "uploadAllKill", "returned"}]_vars

\* An age-triggered upload has failed once and sleeps; a filename sent
\* meanwhile waits in the channel.
FilenameQueuedDuringFlush ==
    /\ FlushInProgress
    /\ pc = "flush"
    /\ uploadFails = 1
    /\ fileChannel # <<>>
    /\ sendsLeft = 0

UploadAndDeleteOncePerTarfile ==
    [][\A s \in DOMAIN currentTarfile :
           LET tf == currentTarfile[s] IN
           /\ tf.state = "open" /\ s \in DOMAIN currentTarfile'
                  => ~currentTarfile'[s].uploaded /\ currentTarfile'[s].removed = {}
           /\ tf.state # "open" /\ s \in DOMAIN currentTarfile'
                  => /\ currentTarfile'[s].state # "open"
                     /\ currentTarfile'[s].members = tf.members
                     /\ tf.state = "done" => currentTarfile'[s] = tf
                     /\ currentTarfile'[s].uploaded /\ ~tf.uploaded => tf.state = "retry"]_vars

\* The second tarfile of a subdir is uploaded by the termination path after
\* the first was uploaded by an ordinary flush.
SecondTarfileOfSubdirUploaded ==
    /\ pc = "uploadAllTerm"
    /\ \E s \in DOMAIN currentTarfile :
           /\ currentTarfile[s].uploaded
           /\ currentTarfile[s].removed # {}
           /\ \E f \in committed \ Range(currentTarfile[s].members) :
                  Subdir(Internal(f, rootDirectory)) = s

(***************************************************************************)
(* C38.  Every member of an archive has an internal path whose Subdir()    *)
(* is the subdir the archive is uploaded under: the tarfile kept under a   *)
(* key of the active map holds files of that subdir only, members and      *)
(* skipped files alike, while it is filled, while it is uploaded and when  *)
(* its upload is done; files of different subdirs are never in one         *)
(* tarfile, and the map has one tarfile per subdir.                        *)
(***************************************************************************)
MembersShareSubdirOfTarfile ==
    /\ DOMAIN currentTarfile \subseteq Subdirs
    /\ \A s \in DOMAIN currentTarfile :
           /\ \A name \in DOMAIN currentTarfile[s].members \cup DOMAIN currentTarfile[s].skipped :
                  Subdir(name) = s
           /\ \A f \in Range(currentTarfile[s].members) \cup currentTarfile[s].removed :
                  Subdir(Internal(f, rootDirectory)) = s

\* The archive of one subdir has been uploaded while the tarfile of another
\* subdir is open with a member of its own.
ArchiveUploadedBesideOtherSubdir ==
    \E s, o \in DOMAIN currentTarfile :
        /\ s # o
        /\ currentTarfile[s].uploaded
        /\ DOMAIN currentTarfile[s].members # {}
        /\ currentTarfile[o].state = "open"
        /\ DOMAIN currentTarfile[o].members # {}

====
